---- MODULE Spec2Model ----
(***************************************************************************)
(* arena402: the per-game state machines (rock-paper-scissors, coin flip,  *)
(* tic-tac-toe, chess) behind BaseGame.submitMove, and the registry-based  *)
(* arbiter that registers two players, routes moves and settles the prize. *)
(***************************************************************************)
EXTENDS Integers, Sequences, FiniteSets, TLC

VARIABLES
    gameType,          \* GameState.gameType (config.id)
    players,           \* GameState.players, the ids in array order
    score,             \* GameState.players[i].score, by array position
    round,             \* GameState.round
    maxRounds,         \* GameState.maxRounds
    currentMoves,      \* GameState.currentMoves, a Map in insertion order
    history,           \* GameState.history
    status,            \* GameState.status
    winnerId,          \* GameState.winnerId
    board,             \* TicTacToeGame.board
    roundsWon,         \* TicTacToeGame.roundsWon, by array position
    currentTurnIndex,  \* TicTacToeGame / ChessGame.currentTurnIndex (0-based)
    chess,             \* ChessGame.chess, the rules engine's position
    moveHistory,       \* ChessGame.moveHistory, the movers in order
    GAME_TYPE,         \* arbiter: the game type the process was started with
    arbiterPlayers,    \* arbiter: the players Map, its keys in insertion order
    games,             \* arbiter: the keys of the games Map
    nextGameId,        \* arbiter: the id the next started game gets
    startTimers,       \* arbiter: pending setTimeout(startGame) callbacks
    endTimers,         \* arbiter: pending setTimeout(endGame) callbacks per game
    endingGames,       \* arbiter: the endingGames Set
    paying,            \* arbiter: endGame calls awaiting safeSendTransaction
    payoutCalls,       \* arbiter: the safeSendTransaction calls made so far
    finishedWinner,    \* observer: per session held, winnerId at the step that finished it
    gameStarted,       \* observer: the game_started events broadcast so far
    startTasks,        \* observer: the move requests startGame has dispatched
    connecting,        \* A2A arbiter: /register calls awaiting A2AClient.fromCardUrl
    taskTimers,        \* arbiter: pending setTimeout callbacks that send move requests
    inbox,             \* per agent, the move requests sent to it and not yet handled
    lastHandled,       \* observer: how the latest move request ended, and whether
                       \* a move of the legal-move list was posted for it
    gameOverEvents,    \* observer: the games a game_over event was broadcast for
    stats,             \* StatsTracker.stats: per player the rounds won, lost, tied
    roundResults,      \* observer: the number of round_result events broadcast
    call,              \* a function called on its own: its name and arguments
    returned,          \* whether that call has returned, and its value
    limiter,           \* RateLimiter: maxRequests and windowMs of the constructor
    store,             \* RateLimiter.store: per key the record held, or null
    now,               \* Date.now()
    served             \* observer: the requests the middleware has answered

gameVars == <<gameType, players, score, round, maxRounds, currentMoves, history,
              status, winnerId, board, roundsWon, currentTurnIndex, chess,
              moveHistory>>

arbiterVars == <<GAME_TYPE, arbiterPlayers, games, nextGameId, startTimers,
                 endTimers, endingGames, paying, payoutCalls, finishedWinner,
                 gameStarted, startTasks, connecting>>

callVars == <<call, returned>>

messageVars == <<taskTimers, inbox, lastHandled, gameOverEvents, stats, roundResults>>

limiterVars == <<limiter, store, now, served>>

vars == <<gameVars, arbiterVars, callVars, messageVars, limiterVars>>

----------------------------------------------------------------------------
(* Bounds of the exploration *)

\* resolved simultaneous rounds explored per match
MaxResolved == 6
\* tic-tac-toe sub-rounds explored per match
MaxSubRounds == 3
\* chess plies explored per match
MaxPlies == 9
\* resolved rounds explored in the long rock-paper-scissors matches
MaxResolvedLong == 10
\* matches the arbiter starts
MaxMatches == 1
\* resolved coin flip rounds the arbiter's matches are followed for
MaxCoinResolved == 4
\* endGame timers pending for one match
MaxPendingEnd == 2
\* resolved rounds the A2A arbiter's matches are followed for
MaxLegacyResolved == 5
\* resolved rounds the matches are followed for where the agents answer
MaxAnsweredRounds == 3
\* move-request timers pending for one match
MaxTaskTimers == 2
\* move requests on their way to one agent for one match
MaxInbox == 2
\* /register calls of one agent in flight at a time in the A2A arbiter
MaxInFlight == 1

----------------------------------------------------------------------------
(* Values *)

NULL == "null"

RPS == "rock-paper-scissors"
COIN == "coin-flip"
TTT == "tic-tac-toe"
CHESS == "chess"

GameTypes == {RPS, COIN, TTT, CHESS}

P1 == "p1"
P2 == "p2"
\* an id that is not a player of the match
Stranger == "p3"
\* the agents that pay the entry fee and register
Registrants == {P1, P2}
\* the third agent, as a registrant of the A2A arbiter
P3 == "p3"
\* the agents that pay the entry fee and register with the A2A arbiter
A2ARegistrants == {P1, P2, P3}

\* String.prototype.toLowerCase on the move strings that are submitted
toLowerCase(s) ==
    CASE s = "Rock" -> "rock"
      [] s = "Heads" -> "heads"
      [] OTHER -> s

\* parseInt on the move strings that are submitted; NaN is -1 here
NaN == 0 - 1
parseInt(s) ==
    CASE s = "1" -> 1 [] s = "2" -> 2 [] s = "3" -> 3
      [] s = "4" -> 4 [] s = "5" -> 5 [] s = "6" -> 6
      [] s = "7" -> 7 [] s = "8" -> 8 [] s = "9" -> 9
      [] s = "0" -> 0 [] s = "10" -> 10
      [] OTHER -> NaN

\* Math.ceil(n / 2)
CeilHalf(n) == (n + 1) \div 2

\* Array.prototype.find over state.players: position of the first player
\* satisfying P, 0 when none does
FindFirst(P(_)) ==
    IF \E i \in 1..Len(players) : P(i)
    THEN CHOOSE i \in 1..Len(players) : P(i) /\ \A j \in 1..(i - 1) : ~P(j)
    ELSE 0

\* BaseGame.findPlayerById, as a position in state.players (0: undefined)
findPlayerById(playerId) == FindFirst(LAMBDA i : players[i] = playerId)

IdOf(i) == IF i = 0 THEN NULL ELSE players[i]

\* the other position in a two-player array
Other(i) == 3 - i

HasMoved_Never(playerId) == FALSE

\* Map.has / Map.get on currentMoves
HasMoved(playerId) == \E k \in 1..Len(currentMoves) : currentMoves[k].playerId = playerId

Valid == [valid |-> TRUE, error |-> NULL]
Invalid(e) == [valid |-> FALSE, error |-> e]

----------------------------------------------------------------------------
(* Game configurations *)

RockPaperScissorsGame_CONFIG == [id |-> RPS, maxRounds |-> 9, turnBased |-> FALSE]
CoinFlipGame_CONFIG == [id |-> COIN, maxRounds |-> 5, turnBased |-> FALSE]
TicTacToeGame_CONFIG == [id |-> TTT, maxRounds |-> 3, turnBased |-> TRUE]
ChessGame_CONFIG == [id |-> CHESS, maxRounds |-> 1, turnBased |-> TRUE]

ConfigOf(t) ==
    CASE t = RPS -> RockPaperScissorsGame_CONFIG
      [] t = COIN -> CoinFlipGame_CONFIG
      [] t = TTT -> TicTacToeGame_CONFIG
      [] t = CHESS -> ChessGame_CONFIG

isTurnBased == ConfigOf(gameType).turnBased

----------------------------------------------------------------------------
(* Rock-paper-scissors *)

RockPaperScissorsGame_validateMove(playerId, move) ==
    IF toLowerCase(move) \notin {"rock", "paper", "scissors"}
    THEN Invalid("Invalid move")
    ELSE IF findPlayerById(playerId) = 0
    THEN Invalid("Player not found")
    ELSE IF HasMoved(playerId)
    THEN Invalid("You already made your move this round")
    ELSE Valid

\* determineWinner without the (paper, rock) case
RockPaperScissorsGame_determineWinner_NoPaperRock(move1, move2) ==
    IF move1 = move2 THEN 0
    ELSE IF \/ (move1 = "rock" /\ move2 = "scissors")
            \/ (move1 = "scissors" /\ move2 = "paper")
    THEN 1
    ELSE 0 - 1

RockPaperScissorsGame_determineWinner(move1, move2) ==
    IF move1 = move2 THEN 0
    ELSE IF \/ (move1 = "rock" /\ move2 = "scissors")
            \/ (move1 = "scissors" /\ move2 = "paper")
            \/ (move1 = "paper" /\ move2 = "rock")
    THEN 1
    ELSE 0 - 1

\* evaluateRound over the pending moves cm: the RoundResult it returns and the
\* round counter it leaves behind
RockPaperScissorsGame_evaluateRound(rnd, sc, cm) ==
    LET outcome == RockPaperScissorsGame_determineWinner(cm[1].move, cm[2].move)
        w == IF outcome = 0 THEN NULL
             ELSE IF outcome = 1 THEN cm[1].playerId
             ELSE cm[2].playerId
    IN  [round |-> rnd + 1, score |-> sc,
         result |-> [winnerId |-> w, tie |-> (outcome = 0)]]

RockPaperScissorsGame_isGameOver(rnd, sc) ==
    LET maxScore == CeilHalf(maxRounds)
    IN  (\E i \in 1..2 : sc[i] >= maxScore) \/ rnd >= maxRounds

\* [...players].sort((a, b) => b.score - a.score): the positions by
\* descending score, equal scores keeping their order
SortedByScore(sc) == IF sc[2] > sc[1] THEN <<2, 1>> ELSE <<1, 2>>

\* getWinner without the decision on points at the round limit
RockPaperScissorsGame_getWinner_NoPoints(rnd, sc) ==
    LET maxScore == CeilHalf(maxRounds)
        winner == FindFirst(LAMBDA i : sc[i] >= maxScore)
    IN  IF winner # 0 THEN players[winner] ELSE NULL

RockPaperScissorsGame_getWinner(rnd, sc) ==
    LET maxScore == CeilHalf(maxRounds)
        winner == FindFirst(LAMBDA i : sc[i] >= maxScore)
        sorted == SortedByScore(sc)
    IN  IF winner # 0 THEN players[winner]
        ELSE IF rnd >= maxRounds /\ sc[sorted[1]] > sc[sorted[2]]
        THEN players[sorted[1]]
        ELSE NULL

----------------------------------------------------------------------------
(* Coin flip *)

CoinFlipGame_validateMove(playerId, move) ==
    IF toLowerCase(move) \notin {"heads", "tails"}
    THEN Invalid("Invalid move")
    ELSE IF findPlayerById(playerId) = 0
    THEN Invalid("Player not found")
    ELSE IF HasMoved(playerId)
    THEN Invalid("You already made your move this round")
    ELSE Valid

\* evaluateRound with the coin landing on actualFlip
CoinFlipGame_evaluateRound(rnd, sc, cm, actualFlip) ==
    LET winners == SelectSeq(cm, LAMBDA m : toLowerCase(m.move) = actualFlip)
        w == IF Len(winners) = 0 \/ Len(winners) = Len(cm) THEN NULL
             ELSE winners[1].playerId
        wi == findPlayerById(w)
    IN  [round |-> rnd + 1,
         score |-> IF w = NULL THEN sc ELSE [sc EXCEPT ![wi] = @ + 1],
         result |-> [winnerId |-> w, tie |-> (w = NULL)]]

CoinFlipGame_isGameOver(rnd, sc) ==
    LET maxScore == CeilHalf(maxRounds) + 1
    IN  (\E i \in 1..2 : sc[i] >= maxScore) \/ rnd >= maxRounds

CoinFlipGame_getWinner(rnd, sc) ==
    LET maxScore == CeilHalf(maxRounds) + 1
        winner == FindFirst(LAMBDA i : sc[i] >= maxScore)
        sorted == SortedByScore(sc)
    IN  IF winner # 0 THEN players[winner]
        ELSE IF rnd >= maxRounds /\ sc[sorted[1]] > sc[sorted[2]]
        THEN players[sorted[1]]
        ELSE NULL

----------------------------------------------------------------------------
(* BaseGame.submitMove, inherited by the two simultaneous games *)

validateMove(playerId, move) ==
    IF gameType = RPS THEN RockPaperScissorsGame_validateMove(playerId, move)
    ELSE CoinFlipGame_validateMove(playerId, move)

evaluateRound(rnd, sc, cm, actualFlip) ==
    IF gameType = RPS THEN RockPaperScissorsGame_evaluateRound(rnd, sc, cm)
    ELSE CoinFlipGame_evaluateRound(rnd, sc, cm, actualFlip)

isGameOver(rnd, sc) ==
    IF gameType = RPS THEN RockPaperScissorsGame_isGameOver(rnd, sc)
    ELSE CoinFlipGame_isGameOver(rnd, sc)

getWinner(rnd, sc) ==
    IF gameType = RPS THEN RockPaperScissorsGame_getWinner(rnd, sc)
    ELSE CoinFlipGame_getWinner(rnd, sc)

Rejected(e) == [success |-> FALSE, error |-> e, roundCompleted |-> FALSE]
Accepted(rc) == [success |-> TRUE, error |-> NULL, roundCompleted |-> rc]

\* the score after the base class credits the round's winner
CreditWinner(sc, w) ==
    LET i == findPlayerById(w)
    IN  IF w # NULL /\ i # 0 THEN [sc EXCEPT ![i] = @ + 1] ELSE sc

\* what submitMove(playerId, move) returns in the current state
BaseGame_submitMove_returns(playerId, move) ==
    LET validation == validateMove(playerId, move)
    IN  IF ~validation.valid THEN Rejected(validation.error)
        ELSE Accepted(Len(currentMoves) + 1 = Len(players))

\* submitMove storing the move before it looks at the validation
BaseGame_submitMove_StoresFirst(playerId, move, actualFlip) ==
    LET validation == validateMove(playerId, move)
        cm == Append(currentMoves, [playerId |-> playerId, move |-> move])
    IN
    IF Len(cm) = Len(players) /\ validation.valid
    THEN LET ev == evaluateRound(round, score, cm, actualFlip)
             rnd == ev.round + 1
             sc == CreditWinner(ev.score, ev.result.winnerId)
             over == isGameOver(rnd, sc)
         IN  /\ history' = Append(history, ev.result)
             /\ round' = rnd
             /\ score' = sc
             /\ currentMoves' = <<>>
             /\ status' = IF over THEN "finished" ELSE status
             /\ winnerId' = IF over THEN getWinner(rnd, sc) ELSE winnerId
             /\ UNCHANGED <<gameType, players, maxRounds, board, roundsWon,
                            currentTurnIndex, chess, moveHistory>>
    ELSE /\ currentMoves' = cm
         /\ UNCHANGED <<gameType, players, score, round, maxRounds, history,
                        status, winnerId, board, roundsWon, currentTurnIndex,
                        chess, moveHistory>>

BaseGame_submitMove(playerId, move, actualFlip) ==
    LET validation == validateMove(playerId, move)
        cm == Append(currentMoves, [playerId |-> playerId, move |-> move])
    IN
    IF ~validation.valid
    THEN UNCHANGED gameVars
    ELSE IF Len(cm) = Len(players)
    THEN LET ev == evaluateRound(round, score, cm, actualFlip)
             rnd == ev.round + 1
             sc == CreditWinner(ev.score, ev.result.winnerId)
             over == isGameOver(rnd, sc)
         IN  /\ history' = Append(history, ev.result)
             /\ round' = rnd
             /\ score' = sc
             /\ currentMoves' = <<>>
             /\ status' = IF over THEN "finished" ELSE status
             /\ winnerId' = IF over THEN getWinner(rnd, sc) ELSE winnerId
             /\ UNCHANGED <<gameType, players, maxRounds, board, roundsWon,
                            currentTurnIndex, chess, moveHistory>>
    ELSE /\ currentMoves' = cm
         /\ UNCHANGED <<gameType, players, score, round, maxRounds, history,
                        status, winnerId, board, roundsWon, currentTurnIndex,
                        chess, moveHistory>>

\* getPublicState with the pending moves added to it
BaseGame_getPublicState_WithPending ==
    [gameType |-> gameType, round |-> round, maxRounds |-> maxRounds,
     players |-> players, score |-> score, history |-> history,
     status |-> status, winnerId |-> winnerId, currentMoves |-> currentMoves]

\* getPublicState: availableMoves and instructions are fixed per game type
BaseGame_getPublicState ==
    [gameType |-> gameType, round |-> round, maxRounds |-> maxRounds,
     players |-> players, score |-> score, history |-> history,
     status |-> status, winnerId |-> winnerId]

----------------------------------------------------------------------------
(* Tic-tac-toe *)

\* the lines without the diagonal from the top right corner
WIN_LINES_NoAntiDiagonal == << <<0, 1, 2>>, <<3, 4, 5>>, <<6, 7, 8>>,
                               <<0, 3, 6>>, <<1, 4, 7>>, <<2, 5, 8>>,
                               <<0, 4, 8>> >>

\* zero-indexed, as in the source; board is a sequence, so cell i is board[i + 1]
WIN_LINES == << <<0, 1, 2>>, <<3, 4, 5>>, <<6, 7, 8>>,
                <<0, 3, 6>>, <<1, 4, 7>>, <<2, 5, 8>>,
                <<0, 4, 8>>, <<2, 4, 6>> >>

EmptyBoard == [i \in 1..9 |-> NULL]

\* the constructor giving O to players[0] and X to players[1]
playerSymbols_Swapped(playerId) == IF playerId = players[1] THEN "O" ELSE "X"

\* playerSymbols: players[0] is X, players[1] is O
playerSymbols(playerId) == IF playerId = players[1] THEN "X" ELSE "O"

\* the symbols looked up the wrong way round
PlayerOfSymbol_Swapped(symbol) == IF symbol = "X" THEN players[2] ELSE players[1]

PlayerOfSymbol(symbol) == IF symbol = "X" THEN players[1] ELSE players[2]

\* validateMove without the comparison against the current player
TicTacToeGame_validateMove_AnyTurn(playerId, move) ==
    LET position == parseInt(move)
    IN  IF position = NaN \/ position < 1 \/ position > 9
        THEN Invalid("Invalid position. Choose 1-9")
        ELSE IF board[position] # NULL
        THEN Invalid("Position is already taken")
        ELSE IF findPlayerById(playerId) = 0
        THEN Invalid("Player not found")
        ELSE Valid

TicTacToeGame_validateMove(playerId, move) ==
    LET currentPlayerId == players[currentTurnIndex + 1]
        position == parseInt(move)
    IN  IF playerId # currentPlayerId
        THEN Invalid("Not your turn")
        ELSE IF position = NaN \/ position < 1 \/ position > 9
        THEN Invalid("Invalid position. Choose 1-9")
        ELSE IF board[position] # NULL
        THEN Invalid("Position is already taken")
        ELSE IF findPlayerById(playerId) = 0
        THEN Invalid("Player not found")
        ELSE Valid

LineWins(b, k) ==
    LET a == WIN_LINES[k][1] + 1
        bb == WIN_LINES[k][2] + 1
        c == WIN_LINES[k][3] + 1
    IN  b[a] # NULL /\ b[a] = b[bb] /\ b[a] = b[c]

\* the first line of WIN_LINES, in order, holding three equal symbols
TicTacToeGame_checkWinner(b) ==
    IF \E k \in 1..Len(WIN_LINES) : LineWins(b, k)
    THEN LET k == CHOOSE n \in 1..Len(WIN_LINES) :
                      LineWins(b, n) /\ \A j \in 1..(n - 1) : ~LineWins(b, j)
         IN  [winner |-> b[WIN_LINES[k][1] + 1], line |-> WIN_LINES[k]]
    ELSE [winner |-> NULL, line |-> <<>>]

TicTacToeGame_isBoardFull(b) == \A i \in 1..9 : b[i] # NULL

TicTacToeGame_isGameOver(rnd, rw) ==
    LET maxWins == CeilHalf(maxRounds)
    IN  (\E i \in 1..2 : rw[i] >= maxWins) \/ rnd >= maxRounds

\* getWinner with the entries sorted in ascending order of wins
TicTacToeGame_getWinner_Ascending(rnd, rw) ==
    LET maxWins == CeilHalf(maxRounds)
        winner == FindFirst(LAMBDA i : rw[i] >= maxWins)
        entries == IF rw[2] < rw[1] THEN <<2, 1>> ELSE <<1, 2>>
    IN  IF winner # 0 THEN players[winner]
        ELSE IF rnd >= maxRounds /\ rw[entries[1]] > rw[entries[2]]
        THEN players[entries[1]]
        ELSE NULL

\* entries.sort((a, b) => b[1] - a[1]) over roundsWon
TicTacToeGame_getWinner(rnd, rw) ==
    LET maxWins == CeilHalf(maxRounds)
        winner == FindFirst(LAMBDA i : rw[i] >= maxWins)
        entries == SortedByScore(rw)
    IN  IF winner # 0 THEN players[winner]
        ELSE IF rnd >= maxRounds /\ rw[entries[1]] > rw[entries[2]]
        THEN players[entries[1]]
        ELSE NULL

\* what submitMove(playerId, move) returns in the current state
TicTacToeGame_submitMove_returns(playerId, move) ==
    LET validation == TicTacToeGame_validateMove(playerId, move)
        b == [board EXCEPT ![parseInt(move)] = playerSymbols(playerId)]
    IN  IF ~validation.valid THEN Rejected(validation.error)
        ELSE Accepted(TicTacToeGame_checkWinner(b).winner # NULL
                      \/ TicTacToeGame_isBoardFull(b))

\* submitMove passing the turn on after a resolved sub-round as after any move
TicTacToeGame_submitMove_KeepsTurn(playerId, move) ==
    LET validation == TicTacToeGame_validateMove(playerId, move)
        position == parseInt(move)
        symbol == playerSymbols(playerId)
        b == [board EXCEPT ![position] = symbol]
        cw == TicTacToeGame_checkWinner(b)
        boardFull == TicTacToeGame_isBoardFull(b)
    IN
    IF ~validation.valid
    THEN UNCHANGED gameVars
    ELSE IF cw.winner # NULL \/ boardFull
    THEN LET w == IF cw.winner # NULL THEN PlayerOfSymbol(cw.winner) ELSE NULL
             wi == findPlayerById(w)
             rw == IF w # NULL THEN [roundsWon EXCEPT ![wi] = @ + 1] ELSE roundsWon
             sc == IF w # NULL THEN [score EXCEPT ![wi] = @ + 1] ELSE score
             rnd == round + 1
             over == TicTacToeGame_isGameOver(rnd, rw)
         IN  /\ roundsWon' = rw
             /\ score' = sc
             /\ board' = EmptyBoard
             /\ currentTurnIndex' = (currentTurnIndex + 1) % Len(players)
             /\ round' = rnd
             /\ status' = IF over THEN "finished" ELSE status
             /\ winnerId' = IF over THEN TicTacToeGame_getWinner(rnd, rw) ELSE winnerId
             /\ UNCHANGED <<gameType, players, maxRounds, currentMoves, history,
                            chess, moveHistory>>
    ELSE /\ board' = b
         /\ currentTurnIndex' = (currentTurnIndex + 1) % Len(players)
         /\ UNCHANGED <<gameType, players, score, round, maxRounds, currentMoves,
                        history, status, winnerId, roundsWon, chess, moveHistory>>

TicTacToeGame_submitMove(playerId, move) ==
    LET validation == TicTacToeGame_validateMove(playerId, move)
        position == parseInt(move)
        symbol == playerSymbols(playerId)
        b == [board EXCEPT ![position] = symbol]
        cw == TicTacToeGame_checkWinner(b)
        boardFull == TicTacToeGame_isBoardFull(b)
    IN
    IF ~validation.valid
    THEN UNCHANGED gameVars
    ELSE IF cw.winner # NULL \/ boardFull
    THEN LET w == IF cw.winner # NULL THEN PlayerOfSymbol(cw.winner) ELSE NULL
             wi == findPlayerById(w)
             rw == IF w # NULL THEN [roundsWon EXCEPT ![wi] = @ + 1] ELSE roundsWon
             sc == IF w # NULL THEN [score EXCEPT ![wi] = @ + 1] ELSE score
             rnd == round + 1
             over == TicTacToeGame_isGameOver(rnd, rw)
         IN  /\ roundsWon' = rw
             /\ score' = sc
             /\ board' = EmptyBoard
             /\ currentTurnIndex' = 0
             /\ round' = rnd
             /\ status' = IF over THEN "finished" ELSE status
             /\ winnerId' = IF over THEN TicTacToeGame_getWinner(rnd, rw) ELSE winnerId
             /\ UNCHANGED <<gameType, players, maxRounds, currentMoves, history,
                            chess, moveHistory>>
    ELSE /\ board' = b
         /\ currentTurnIndex' = (currentTurnIndex + 1) % Len(players)
         /\ UNCHANGED <<gameType, players, score, round, maxRounds, currentMoves,
                        history, status, winnerId, roundsWon, chess, moveHistory>>

----------------------------------------------------------------------------
(* Chess.  The rules engine (chess.js) is a collaborator: its position is  *)
(* kept as the verdicts the game reads from it, and the position a legal   *)
(* move leads to is the engine's choice.                                   *)

\* "draw": drawn by rule (fifty moves, repetition, material), moves remain;
\* "stalemate" and "checkmate": the side to move has no legal move
ChessVerdicts == {"normal", "check", "checkmate", "draw", "stalemate"}

\* the verdicts a position can have after ply plies from the initial
\* position: no mate before the fourth ply, no draw by rule before the
\* eighth, no stalemate before the nineteenth
VerdictsAfter(ply) ==
    {"normal"} \union (IF ply >= 3 THEN {"check"} ELSE {})
               \union (IF ply >= 4 THEN {"checkmate"} ELSE {})
               \union (IF ply >= 8 THEN {"draw"} ELSE {})
               \union (IF ply >= 19 THEN {"stalemate"} ELSE {})

Chess_new == [verdict |-> "normal", turn |-> "w"]

Chess_isCheckmate(c) == c.verdict = "checkmate"
Chess_isStalemate(c) == c.verdict = "stalemate"
Chess_isDraw(c) == c.verdict \in {"draw", "stalemate"}
Chess_isGameOver(c) == c.verdict \in {"checkmate", "draw", "stalemate"}
Chess_hasMoves_Always(c) == TRUE

\* chess.moves() is not empty
Chess_hasMoves(c) == c.verdict \notin {"checkmate", "stalemate"}

\* the move strings: one that the engine finds legal whenever a legal move
\* exists, one that it never accepts
LegalSAN == "e4"
IllegalSAN == "Ke9"

\* chess.move(move) succeeds (otherwise it throws)
Chess_canMove(c, move) == move = LegalSAN /\ Chess_hasMoves(c)

\* the position after a move that leads to verdict v
Chess_move(c, v) == [verdict |-> v, turn |-> IF c.turn = "w" THEN "b" ELSE "w"]

ChessGame_validateMove(playerId, move) ==
    LET currentPlayerId == players[currentTurnIndex + 1]
    IN  IF playerId # currentPlayerId
        THEN Invalid("Not your turn")
        ELSE IF ~Chess_canMove(chess, move)
        THEN Invalid("Invalid move format")
        ELSE Valid

ChessGame_isGameOver == Chess_isGameOver(chess) \/ status = "finished"

ChessGame_getWinner ==
    IF Chess_isCheckmate(chess)
    THEN players[IF chess.turn = "w" THEN 2 ELSE 1]
    ELSE winnerId

\* what submitMove(playerId, move) returns when the engine answers the
\* move with the position verdict v
ChessGame_submitMove_returns(playerId, move, v) ==
    LET validation == ChessGame_validateMove(playerId, move)
    IN  IF ~validation.valid THEN Rejected(validation.error)
        ELSE Accepted(v \in {"checkmate", "draw", "stalemate"})

\* submitMove, the engine answering the move with the position verdict v
ChessGame_submitMove(playerId, move, v) ==
    LET validation == ChessGame_validateMove(playerId, move)
        c == Chess_move(chess, v)
        pi == findPlayerById(playerId)
    IN
    IF ~validation.valid
    THEN UNCHANGED gameVars
    ELSE /\ chess' = c
         /\ moveHistory' = Append(moveHistory, playerId)
         /\ UNCHANGED <<gameType, players, maxRounds, currentMoves, history,
                        board, roundsWon>>
         /\ IF Chess_isCheckmate(c)
            THEN /\ score' = [score EXCEPT ![pi] = 1]
                 /\ status' = "finished"
                 /\ winnerId' = playerId
                 /\ UNCHANGED <<round, currentTurnIndex>>
            ELSE IF Chess_isDraw(c) \/ Chess_isStalemate(c)
            THEN /\ status' = "finished"
                 /\ UNCHANGED <<score, winnerId, round, currentTurnIndex>>
            ELSE /\ currentTurnIndex' = (currentTurnIndex + 1) % Len(players)
                 /\ round' = round + 1
                 /\ UNCHANGED <<score, status, winnerId>>

----------------------------------------------------------------------------
(* Construction and the moves that can be submitted *)

\* BaseGame constructor, then the subclass constructor; ChessGame shuffles
\* the players before passing them on
NewGame(t, ps) ==
    [gameType |-> t, players |-> ps, score |-> [i \in 1..2 |-> 0], round |-> 0,
     maxRounds |-> ConfigOf(t).maxRounds, currentMoves |-> <<>>, history |-> <<>>,
     status |-> "active", winnerId |-> NULL, board |-> EmptyBoard,
     roundsWon |-> [i \in 1..2 |-> 0], currentTurnIndex |-> 0,
     chess |-> Chess_new, moveHistory |-> <<>>]

\* no game object: before startGame, and after the session is deleted
NoGame ==
    [gameType |-> "none", players |-> <<>>, score |-> [i \in 1..2 |-> 0], round |-> 0,
     maxRounds |-> 0, currentMoves |-> <<>>, history |-> <<>>,
     status |-> "waiting", winnerId |-> NULL, board |-> EmptyBoard,
     roundsWon |-> [i \in 1..2 |-> 0], currentTurnIndex |-> 0,
     chess |-> Chess_new, moveHistory |-> <<>>]

GameIs(g) ==
    /\ gameType = g.gameType /\ players = g.players /\ score = g.score
    /\ round = g.round /\ maxRounds = g.maxRounds /\ currentMoves = g.currentMoves
    /\ history = g.history /\ status = g.status /\ winnerId = g.winnerId
    /\ board = g.board /\ roundsWon = g.roundsWon
    /\ currentTurnIndex = g.currentTurnIndex /\ chess = g.chess
    /\ moveHistory = g.moveHistory

GameBecomes(g) ==
    /\ gameType' = g.gameType /\ players' = g.players /\ score' = g.score
    /\ round' = g.round /\ maxRounds' = g.maxRounds /\ currentMoves' = g.currentMoves
    /\ history' = g.history /\ status' = g.status /\ winnerId' = g.winnerId
    /\ board' = g.board /\ roundsWon' = g.roundsWon
    /\ currentTurnIndex' = g.currentTurnIndex /\ chess' = g.chess
    /\ moveHistory' = g.moveHistory

GameIds == 1..MaxMatches

\* the arbiter with no player, no game and no timer, started for game type t
ArbiterIdle(t) ==
    /\ GAME_TYPE = t
    /\ arbiterPlayers = <<>>
    /\ games = {}
    /\ nextGameId = 1
    /\ startTimers = 0
    /\ endTimers = [g \in GameIds |-> 0]
    /\ endingGames = {}
    /\ paying = <<>>
    /\ payoutCalls = <<>>
    /\ finishedWinner = [g \in GameIds |-> "none"]
    /\ gameStarted = <<>>
    /\ startTasks = {}
    /\ connecting = [a \in A2ARegistrants |-> 0]

PlayerOrders(t) == IF t = CHESS THEN {<<P1, P2>>, <<P2, P1>>} ELSE {<<P1, P2>>}

MovesOf(t) ==
    CASE t = RPS -> {"rock", "paper", "scissors", "Rock", "lizard"}
      [] t = COIN -> {"heads", "tails", "Heads", "edge"}
      [] t = TTT -> {"1", "2", "3", "4", "5", "6", "7", "8", "9", "0", "10", "x"}
      [] t = CHESS -> {LegalSAN, IllegalSAN}

Callers == {P1, P2, Stranger}

\* no move request is on its way and nothing has been sent yet
NoMessages ==
    /\ taskTimers = [g \in GameIds |-> [pending |-> 0, resolved |-> 0]]
    /\ inbox = [a \in Registrants |-> [g \in GameIds |-> 0]]
    /\ lastHandled = [outcome |-> "none", legalMovePosted |-> FALSE]
    /\ gameOverEvents = {}
    /\ stats = [a \in Registrants |-> [roundsWon |-> 0, roundsLost |-> 0, roundsTied |-> 0]]
    /\ roundResults = 0

\* the clients the rate limiter tells apart (getKey: the request's address)
Keys == {"10.0.0.1", "10.0.0.2"}

\* store.get(key) of a key the store holds no record for
NoRecord == [count |-> 0, resetAt |-> 0]

\* no rate limiter is under observation
NoLimiter ==
    /\ limiter = [maxRequests |-> 0, windowMs |-> 0]
    /\ store = [key \in Keys |-> NoRecord]
    /\ now = 0
    /\ served = <<>>

\* no function is being called on its own
NoCall == call = [fn |-> "none"] /\ returned = [done |-> FALSE]

Init ==
    \E t \in GameTypes : \E ps \in PlayerOrders(t) :
        GameIs(NewGame(t, ps)) /\ ArbiterIdle(t) /\ NoCall /\ NoMessages /\ NoLimiter

SubmitSimultaneous ==
    /\ gameType \in {RPS, COIN}
    /\ Len(history) < MaxResolved
    /\ \E playerId \in Callers, move \in MovesOf(gameType), actualFlip \in {"heads", "tails"} :
          BaseGame_submitMove(playerId, move, actualFlip)
    /\ UNCHANGED <<arbiterVars, callVars, messageVars, limiterVars>>

SubmitTicTacToe ==
    /\ gameType = TTT
    /\ round < MaxSubRounds
    /\ \E playerId \in Callers, move \in MovesOf(TTT) :
          TicTacToeGame_submitMove(playerId, move)
    /\ UNCHANGED <<arbiterVars, callVars, messageVars, limiterVars>>

SubmitChess ==
    /\ gameType = CHESS
    /\ Len(moveHistory) < MaxPlies
    /\ \E playerId \in Callers, move \in MovesOf(CHESS),
          v \in VerdictsAfter(Len(moveHistory) + 1) :
          ChessGame_submitMove(playerId, move, v)
    /\ UNCHANGED <<arbiterVars, callVars, messageVars, limiterVars>>

Next == SubmitSimultaneous \/ SubmitTicTacToe \/ SubmitChess

Spec == Init /\ [][Next]_vars

----------------------------------------------------------------------------
(* Long rock-paper-scissors matches: the same game, followed for more      *)
(* resolved rounds, the two players choosing between two moves             *)

InitLong == GameIs(NewGame(RPS, <<P1, P2>>)) /\ ArbiterIdle(RPS) /\ NoCall /\ NoMessages /\ NoLimiter

SubmitLong ==
    /\ Len(history) < MaxResolvedLong
    /\ \E playerId \in {P1, P2}, move \in {"rock", "paper"} :
          BaseGame_submitMove(playerId, move, "heads")
    /\ UNCHANGED <<arbiterVars, callVars, messageVars, limiterVars>>

NextLong == SubmitLong

SpecLong == InitLong /\ [][NextLong]_vars

----------------------------------------------------------------------------
(* The registry-based arbiter *)

\* the agents that send requests
Agents == {P1, P2, Stranger}

\* PlayerInfo.wallet of a registered agent
WalletOf(agentId) ==
    CASE agentId = P1 -> "wallet-p1"
      [] agentId = P2 -> "wallet-p2"
      [] OTHER -> "wallet-p3"

\* players.has(agentId)
IsRegistered(agentId) ==
    \E k \in 1..Len(arbiterPlayers) : arbiterPlayers[k] = agentId

\* the moves the agents send to the arbiter
ArbiterMovesOf(t) ==
    CASE t = RPS -> {"rock", "paper", "lizard"}
      [] t = COIN -> {"heads", "tails"}
      [] t = TTT -> {"1", "2", "3", "4", "5", "7"}
      [] t = CHESS -> {LegalSAN, IllegalSAN}

\* the sides the coin can land on, where the game flips one
FlipsOf(t) == IF t = COIN THEN {"heads", "tails"} ELSE {"heads"}

\* the orders in which the game's constructor may keep the players
ConstructorOrders(t, ps) ==
    IF t = CHESS THEN {ps, <<ps[2], ps[1]>>} ELSE {ps}

\* game.submitMove(agentId, move), the coin landing on actualFlip and the
\* chess engine answering with verdict v
GameSubmitMove(agentId, move, actualFlip, v) ==
    CASE gameType \in {RPS, COIN} -> BaseGame_submitMove(agentId, move, actualFlip)
      [] gameType = TTT -> TicTacToeGame_submitMove(agentId, move)
      [] gameType = CHESS -> ChessGame_submitMove(agentId, move, v)

GameSubmitMove_returns(agentId, move, v) ==
    CASE gameType \in {RPS, COIN} -> BaseGame_submitMove_returns(agentId, move)
      [] gameType = TTT -> TicTacToeGame_submitMove_returns(agentId, move)
      [] gameType = CHESS -> ChessGame_submitMove_returns(agentId, move, v)

\* the part of the match the exploration follows
WithinBounds ==
    CASE gameType = RPS -> Len(history) < MaxResolved
      [] gameType = COIN -> Len(history) < MaxCoinResolved
      [] gameType = TTT -> round < MaxSubRounds
      [] gameType = CHESS -> Len(moveHistory) < MaxPlies

\* POST /register with a valid, paid body
Register(agentId) ==
    /\ ~IsRegistered(agentId)
    /\ Len(arbiterPlayers) < 2
    /\ arbiterPlayers' = Append(arbiterPlayers, agentId)
    /\ startTimers' = IF Len(arbiterPlayers') = 2 THEN startTimers + 1 ELSE startTimers
    /\ UNCHANGED <<gameVars, GAME_TYPE, connecting, games, nextGameId, endTimers, endingGames,
                   paying, payoutCalls, finishedWinner, gameStarted, startTasks>>

\* createGame falling back on rock-paper-scissors for an unknown type
GameRegistry_createGame_Default(type, ps) ==
    IF type \in GameTypes
    THEN {NewGame(type, o) : o \in ConstructorOrders(type, ps)}
    ELSE {NewGame(RPS, ps)}

\* GameRegistry.createGame: the game objects the call may return, NoGame
\* standing for null
GameRegistry_createGame(type, ps) ==
    IF type \in GameTypes
    THEN {NewGame(type, o) : o \in ConstructorOrders(type, ps)}
    ELSE {NoGame}

\* the players startGame sends the first move request to
FirstTasks(game) ==
    IF ConfigOf(game.gameType).turnBased
    THEN {game.players[game.currentTurnIndex + 1]}
    ELSE {game.players[i] : i \in 1..Len(game.players)}

\* startGame(gameType)
startGame(type) ==
    /\ \E game \in GameRegistry_createGame(type, arbiterPlayers) :
          IF game = NoGame
          THEN UNCHANGED <<gameVars, games, nextGameId, gameStarted, startTasks>>
          ELSE /\ GameBecomes(game)
               /\ games' = games \union {nextGameId}
               /\ nextGameId' = nextGameId + 1
               /\ gameStarted' = Append(gameStarted, [gameId |-> nextGameId,
                                                      gameType |-> type])
               /\ startTasks' = startTasks \union
                     {[gameId |-> nextGameId, to |-> p] : p \in FirstTasks(game)}
    /\ UNCHANGED <<GAME_TYPE, connecting, arbiterPlayers, endTimers, endingGames, paying,
                   payoutCalls, finishedWinner>>

\* POST /move for a game the games Map holds
PostMove(agentId, move, gameId) ==
    /\ gameId \in games
    /\ WithinBounds
    /\ endTimers[gameId] < MaxPendingEnd
    /\ \E actualFlip \in FlipsOf(gameType), v \in VerdictsAfter(Len(moveHistory) + 1) :
          LET moveResult == GameSubmitMove_returns(agentId, move, v)
          IN  /\ GameSubmitMove(agentId, move, actualFlip, v)
              /\ endTimers' =
                    IF moveResult.success /\ moveResult.roundCompleted
                       /\ status' = "finished"
                    THEN [endTimers EXCEPT ![gameId] = @ + 1]
                    ELSE endTimers
    /\ finishedWinner' =
          IF status # "finished" /\ status' = "finished"
          THEN [finishedWinner EXCEPT ![gameId] = winnerId']
          ELSE finishedWinner
    /\ UNCHANGED <<GAME_TYPE, connecting, arbiterPlayers, games, nextGameId, startTimers,
                   endingGames, paying, payoutCalls, gameStarted, startTasks>>

endGame_alreadyEnding_Never(gameId) == FALSE

\* the guard endGame opens with
endGame_alreadyEnding(gameId) == gameId \in endingGames

\* the endGame(gameId) callback, up to the await of safeSendTransaction
endGame(gameId) ==
    /\ endTimers[gameId] > 0
    /\ endTimers' = [endTimers EXCEPT ![gameId] = @ - 1]
    /\ IF \/ endGame_alreadyEnding(gameId)
          \/ gameId \notin games
          \/ winnerId = NULL
          \/ ~IsRegistered(winnerId)
       THEN UNCHANGED <<endingGames, paying, payoutCalls>>
       ELSE /\ endingGames' = endingGames \union {gameId}
            /\ payoutCalls' = Append(payoutCalls,
                                     [gameId |-> gameId, to |-> WalletOf(winnerId)])
            /\ paying' = Append(paying, [gameId |-> gameId, winnerId |-> winnerId])
    /\ UNCHANGED <<gameVars, GAME_TYPE, connecting, arbiterPlayers, games, nextGameId, startTimers,
                   finishedWinner, gameStarted, startTasks>>

\* safeSendTransaction of the k-th waiting endGame call returns (ok) or
\* throws; either way the finally block runs
\* the finally block without games.delete(gameId)
PayoutSettles_KeepsSession(k, ok) ==
    LET gameId == paying[k].gameId
    IN  /\ paying' = SubSeq(paying, 1, k - 1) \o SubSeq(paying, k + 1, Len(paying))
        /\ arbiterPlayers' = <<>>
        /\ endingGames' = endingGames \ {gameId}
        /\ UNCHANGED <<gameVars, games, finishedWinner>>
        /\ UNCHANGED <<GAME_TYPE, connecting, nextGameId, startTimers, endTimers, payoutCalls,
                       gameStarted, startTasks>>

PayoutSettles(k, ok) ==
    LET gameId == paying[k].gameId
    IN  /\ paying' = SubSeq(paying, 1, k - 1) \o SubSeq(paying, k + 1, Len(paying))
        /\ arbiterPlayers' = <<>>
        /\ games' = games \ {gameId}
        /\ endingGames' = endingGames \ {gameId}
        /\ IF gameId \in games THEN GameBecomes(NoGame) ELSE UNCHANGED gameVars
        /\ finishedWinner' = [finishedWinner EXCEPT ![gameId] = "none"]
        /\ UNCHANGED <<GAME_TYPE, connecting, nextGameId, startTimers, endTimers, payoutCalls,
                       gameStarted, startTasks>>

ArbiterInit ==
    \E t \in GameTypes : GameIs(NoGame) /\ ArbiterIdle(t) /\ NoCall /\ NoMessages /\ NoLimiter

RegisterRequest ==
    /\ \E agentId \in Registrants : Register(agentId)
    /\ UNCHANGED <<callVars, messageVars, limiterVars>>

\* the setTimeout(() => startGame(GAME_TYPE), 2000) callback
StartGameTimer ==
    /\ startTimers > 0
    /\ nextGameId <= MaxMatches
    /\ startTimers' = startTimers - 1
    /\ startGame(GAME_TYPE)
    /\ UNCHANGED <<callVars, messageVars, limiterVars>>

MoveRequest ==
    /\ \E agentId \in Agents, move \in ArbiterMovesOf(GAME_TYPE), gameId \in GameIds :
          PostMove(agentId, move, gameId)
    /\ UNCHANGED <<callVars, messageVars, limiterVars>>

EndGameTimer ==
    /\ \E gameId \in GameIds : endGame(gameId)
    /\ UNCHANGED <<callVars, messageVars, limiterVars>>

PayoutReturns ==
    /\ \E k \in 1..Len(paying), ok \in BOOLEAN : PayoutSettles(k, ok)
    /\ UNCHANGED <<callVars, messageVars, limiterVars>>

ArbiterNext ==
    \/ RegisterRequest
    \/ StartGameTimer
    \/ MoveRequest
    \/ EndGameTimer
    \/ PayoutReturns

ArbiterSpec == ArbiterInit /\ [][ArbiterNext]_vars

\* timers fire and the payout call returns; requests are under no obligation
ArbiterFairSpec ==
    /\ ArbiterSpec
    /\ WF_vars(StartGameTimer)
    /\ WF_vars(EndGameTimer)
    /\ WF_vars(PayoutReturns)

----------------------------------------------------------------------------
(* Properties of the game state machines *)

\* validateMove of the game's class
GameValidateMove(playerId, move) ==
    CASE gameType = RPS -> RockPaperScissorsGame_validateMove(playerId, move)
      [] gameType = COIN -> CoinFlipGame_validateMove(playerId, move)
      [] gameType = TTT -> TicTacToeGame_validateMove(playerId, move)
      [] gameType = CHESS -> ChessGame_validateMove(playerId, move)

\* some submitMove call would be accepted in the current state
SomeMoveAccepted ==
    \E playerId \in Callers, move \in MovesOf(gameType) :
        GameValidateMove(playerId, move).valid

\* the rounds of history won by playerId
RoundsWonBy(playerId) ==
    Cardinality({k \in 1..Len(history) : history[k].winnerId = playerId})

\* a round was resolved by this step (simultaneous games)
RoundResolved == Len(history') = Len(history) + 1

\* C1: once a game is finished, every submitMove is rejected and no part of
\* the game state changes any more.
C1_FinishedAcceptsNothing ==
    [][status = "finished" => (~SomeMoveAccepted /\ UNCHANGED gameVars)]_vars

\* C4: scores never go below zero; a step changes the scores only by raising
\* one player's score by exactly 1, and in the simultaneous games a resolved
\* round credits exactly the winner it records (nobody on a tie).
C4_ScoreStep ==
    /\ \A i \in 1..2 : score[i] >= 0 /\ score'[i] >= 0
    /\ \/ score' = score
       \/ \E i \in 1..2 : score' = [score EXCEPT ![i] = score[i] + 1]
    /\ (gameType \in {RPS, COIN} /\ RoundResolved) =>
          LET w == history'[Len(history')].winnerId
          IN  IF w = NULL THEN score' = score
              ELSE score' = [score EXCEPT ![findPlayerById(w)] = @ + 1]

C4_ScoresStepByOne == [][C4_ScoreStep]_vars

\* C5: round never exceeds maxRounds.
C5_RoundWithinMax == round <= maxRounds

\* C6: in the simultaneous games round equals the number of records in
\* history.
C6_RoundIsHistoryLength ==
    gameType \in {RPS, COIN} => round = Len(history)

\* C7: in rock-paper-scissors the step that raises a player's score to 5
\* leaves the game finished with that player as winner.
C7_FifthWinEndsMatch ==
    [][gameType = RPS =>
         \A i \in 1..2 :
            (score[i] < 5 /\ score'[i] >= 5) =>
               (status' = "finished" /\ winnerId' = players[i])]_vars

\* C8: in coin flip the step that records a player's third round win leaves
\* the game finished with that player as winner, and while fewer than 5 rounds
\* are resolved a declared winner has won at least 3 rounds.
C8_CoinFlipFirstToThree ==
    /\ [](gameType = COIN /\ winnerId # NULL /\ Len(history) < 5
             => RoundsWonBy(winnerId) >= 3)
    /\ [][gameType = COIN =>
            \A i \in 1..2 :
               (RoundsWonBy(players[i]) = 2 /\ RoundsWonBy(players[i])' = 3) =>
                  (status' = "finished" /\ winnerId' = players[i])]_vars

\* the win threshold isGameOver applies to the game's scores
AtThreshold(sc, rw) ==
    CASE gameType = RPS -> \E i \in 1..2 : sc[i] >= CeilHalf(maxRounds)
      [] gameType = COIN -> \E i \in 1..2 : sc[i] >= CeilHalf(maxRounds) + 1
      [] gameType = TTT -> \E i \in 1..2 : rw[i] >= CeilHalf(maxRounds)
      [] OTHER -> FALSE

\* the match finished at the round cap, nobody having reached the threshold
FinishedAtCap(st, rnd, sc, rw) ==
    /\ gameType \in {RPS, COIN, TTT}
    /\ st = "finished"
    /\ rnd >= maxRounds
    /\ ~AtThreshold(sc, rw)

\* C9: when a round-counted match finishes because round reached maxRounds
\* with no player at the win threshold, the winner is the player with the
\* strictly higher score, and there is no winner exactly when the scores are
\* equal.
C9_WinnerAtRoundCap ==
    [][(status = "active" /\ FinishedAtCap(status', round', score', roundsWon')) =>
          /\ (winnerId' = NULL) <=> (score'[1] = score'[2])
          /\ \A i \in 1..2 : score'[i] > score'[Other(i)] => winnerId' = players[i]]_vars

C9_Witness ==
    /\ FinishedAtCap(status, round, score, roundsWon)
    /\ gameType = TTT
    /\ score[2] > score[1]
    /\ winnerId = players[2]

\* C10: a finished game stays finished and keeps its winnerId.
C10_FinishedIsFinal ==
    [][status = "finished" => (status' = "finished" /\ winnerId' = winnerId)]_vars

----------------------------------------------------------------------------
(* Properties of the arbiter *)

\* the safeSendTransaction calls made for the prize of match g
PayoutsFor(g) ==
    Cardinality({k \in 1..Len(payoutCalls) : payoutCalls[k].gameId = g})

\* C2: whatever the interleaving of the endGame calls of a match, the prize
\* payout is invoked at most once for it; a finished match with a winner has
\* its payout made or an endGame call still to come, and a match that was
\* evicted had exactly one payout invoked.
C2_PayoutOncePerMatch ==
    \A g \in GameIds :
        /\ PayoutsFor(g) <= 1
        /\ (g \in games /\ status = "finished" /\ winnerId # NULL) =>
              (PayoutsFor(g) = 1 \/ endTimers[g] > 0)
        /\ (g < nextGameId /\ g \notin games) => PayoutsFor(g) = 1

\* both endGame timers of a coin flip match that player 1 won in two rounds
\* have fired, the second one after a round played past the end, while the
\* payout of the first is still in flight
C2_Witness ==
    \E g \in GameIds :
        /\ g \in games /\ g \in endingGames
        /\ endTimers[g] = 0
        /\ PayoutsFor(g) = 1
        /\ gameType = COIN /\ Len(history) >= 3
        /\ history[1].winnerId = P1 /\ history[2].winnerId = P1

\* C3: every match that reaches status finished is eventually evicted: its
\* session leaves the games Map and the players Map is cleared.
C3_FinishedEventuallyEvicted ==
    \A g \in GameIds :
        (g \in games /\ status = "finished") ~> (g \notin games /\ arbiterPlayers = <<>>)

----------------------------------------------------------------------------
(* Rejected submissions *)

\* the submitted strings the game's validateMove recognises as a move
RecognisedMoves ==
    {m \in MovesOf(gameType) :
        toLowerCase(m) \in (IF gameType = RPS THEN {"rock", "paper", "scissors"}
                            ELSE {"heads", "tails"})}

\* every player with a move in the pending round is refused any further move
\* of the game, with the "already moved" reason
SecondSubmissionRefused ==
    gameType \in {RPS, COIN} =>
        \A k \in 1..Len(currentMoves), move \in RecognisedMoves :
            BaseGame_submitMove_returns(currentMoves[k].playerId, move)
                = Rejected("You already made your move this round")

AnswersOf(t) == IF t = CHESS THEN VerdictsAfter(Len(moveHistory) + 1) ELSE {"normal"}

\* every caller other than the current-turn player is refused, whatever the
\* move and whatever the engine would answer
OutOfTurnRefused ==
    gameType \in {TTT, CHESS} =>
        \A playerId \in Callers \ {players[currentTurnIndex + 1]},
           move \in MovesOf(gameType), v \in AnswersOf(gameType) :
            ~GameSubmitMove_returns(playerId, move, v).success

\* C13: in tic-tac-toe and chess a submitMove from anyone but the current-turn
\* player is rejected and leaves the board or position, the turn cursor, the
\* round and the scores unchanged.
C13_OutOfTurnRejected ==
    /\ []OutOfTurnRefused
    /\ [][\/ UNCHANGED <<board, chess, moveHistory, currentTurnIndex, round,
                        score, roundsWon>>
          \/ gameType \notin {TTT, CHESS}
          \/ \A playerId \in Callers \ {players[currentTurnIndex + 1]},
                move \in MovesOf(gameType), v \in AnswersOf(gameType) :
                 ~GameSubmitMove(playerId, move, "heads", v)]_vars

\* tic-tac-toe, X has taken the centre and it is O's turn
C13_Witness ==
    /\ gameType = TTT /\ status = "active"
    /\ board[5] = "X" /\ currentTurnIndex = 1

\* every call that is refused comes back with a reason
RefusalsCarryReason ==
    \A playerId \in Callers, move \in MovesOf(gameType), v \in AnswersOf(gameType) :
        LET r == GameSubmitMove_returns(playerId, move, v)
        IN  ~r.success => r.error # NULL

\* C14: in every game variant a submitMove call that returns success = false
\* returns a reason and leaves the whole game state unchanged.
C14_RejectionChangesNothing ==
    /\ []RefusalsCarryReason
    /\ [][\/ UNCHANGED gameVars
          \/ \A playerId \in Callers, move \in MovesOf(gameType),
                actualFlip \in FlipsOf(gameType), v \in AnswersOf(gameType) :
                 ~(/\ ~GameSubmitMove_returns(playerId, move, v).success
                   /\ GameSubmitMove(playerId, move, actualFlip, v))]_vars

\* a coin flip round with one move pending: a stranger's call, an
\* unrecognised symbol and a second move of the same player are all refused
C14_Witness ==
    /\ gameType = COIN /\ Len(currentMoves) = 1
    /\ ~BaseGame_submitMove_returns(Stranger, "heads").success
    /\ ~BaseGame_submitMove_returns(P2, "edge").success
    /\ ~BaseGame_submitMove_returns(currentMoves[1].playerId, "tails").success

\* no call is accepted: any caller, any move, any answer of the engine
NoChessMoveAccepted ==
    \A playerId \in Callers, move \in MovesOf(CHESS), v \in ChessVerdicts :
        ~ChessGame_submitMove_returns(playerId, move, v).success

\* C17: the chess move that delivers checkmate leaves the game finished with
\* the mover as winner, and from then on every submitMove, from either
\* player, is rejected.
C17_CheckmateEndsChess ==
    [][gameType = CHESS =>
         /\ (~Chess_isCheckmate(chess) /\ Chess_isCheckmate(chess')) =>
               /\ status' = "finished"
               /\ winnerId' = moveHistory'[Len(moveHistory')]
               /\ NoChessMoveAccepted'
         /\ Chess_isCheckmate(chess) => (NoChessMoveAccepted /\ UNCHANGED gameVars)]_vars

\* black has delivered mate on the fourth ply
C17_Witness ==
    /\ gameType = CHESS /\ Chess_isCheckmate(chess)
    /\ Len(moveHistory) = 4
    /\ status = "finished" /\ winnerId = players[2]
    /\ NoChessMoveAccepted

\* C18: in a simultaneous game, the step that stores a move in the unresolved
\* round changes nothing another party can observe in a way that depends on
\* the move: the public state is the one from before the move, and every
\* refusal answered to another caller is the one that caller would have got
\* before it.  (The state before the step does not depend on the move, so two
\* different pending moves give the same observations.)
C18_PendingMoveHidden ==
    [][(gameType \in {RPS, COIN} /\ Len(currentMoves') = Len(currentMoves) + 1) =>
         LET mover == currentMoves'[Len(currentMoves')].playerId
         IN  /\ BaseGame_getPublicState' = BaseGame_getPublicState
             /\ \A other \in Callers \ {mover}, move \in MovesOf(gameType) :
                   ~BaseGame_submitMove_returns(other, move)'.success =>
                      BaseGame_submitMove_returns(other, move)'
                         = BaseGame_submitMove_returns(other, move)]_vars

\* player 2 has "tails" pending in a coin flip round, player 1 has not moved
C18_Witness ==
    /\ gameType = COIN /\ status = "active"
    /\ currentMoves = <<[playerId |-> P2, move |-> "tails"]>>

----------------------------------------------------------------------------
(* The recipients of the prize *)

\* C11: the prize payout is invoked only for a match that finished with a
\* winner, and it goes to the wallet registered by the player who was
\* recorded as winnerId when the match finished: never for a match that
\* finished as a draw, never to the player who lost it.
C11_PayoutToFinishWinner ==
    [][payoutCalls' # payoutCalls =>
         LET paid == payoutCalls'[Len(payoutCalls')]
         IN  /\ status = "finished"
             /\ finishedWinner[paid.gameId] \notin {"none", NULL}
             /\ paid.to = WalletOf(finishedWinner[paid.gameId])]_vars

----------------------------------------------------------------------------
(* Functions called on their own: determineWinner on every pair of moves,  *)
(* checkWinner on every board, startGame on every game type and on a type  *)
(* the registry does not know                                              *)

\* the legacy game's determineWinner (game.ts)
Legacy_determineWinner(move1, move2) ==
    IF move1 = move2 THEN 0
    ELSE IF \/ (move1 = "rock" /\ move2 = "scissors")
            \/ (move1 = "scissors" /\ move2 = "paper")
            \/ (move1 = "paper" /\ move2 = "rock")
    THEN 1
    ELSE 0 - 1

Move == {"rock", "paper", "scissors"}

\* every board over X, O and the empty cell
Boards == [1..9 -> {"X", "O", NULL}]

\* a game type GameRegistry.initializeGames does not register
UnknownType == "unknown-game"

\* largest maxRetries retryBlockchainOperation is called with
MaxRetriesArg == 4
\* most subscribers connected to /events at one broadcast
MaxClients == 3

\* the delayMs arguments: the default, safeGetBalance's and safeSendTransaction's
Delays == {500, 1000, 2000}

\* how one await operation() ends: resolved, rejected with an error
\* isTransientError accepts, rejected with any other error
OperationOutcomes == {"ok", "transient", "permanent"}

\* isTransientError matching every message
isTransientError_MatchesAll(outcome) == TRUE

isTransientError(outcome) == outcome = "transient"

\* the local variables of retryBlockchainOperation when the loop is entered
RetryEntered(delayMs) ==
    [done |-> FALSE, attempt |-> 1, delayMs |-> delayMs, outcomes |-> <<>>,
     waits |-> <<>>, threw |-> "none", submitted |-> 0]

\* /events connections: open, open with a write that throws, closed (the
\* close handler has run)
ClientStates == {"open", "broken", "closed"}

\* sseClients after the close handlers' splice
sseClientsOf(connections) ==
    {i \in 1..Len(connections) : connections[i] # "closed"}

CallInit ==
    /\ NoMessages /\ NoLimiter
    /\ \/ /\ \E a \in Move, b \in Move, c \in {"RockPaperScissorsGame", "legacy"} :
               call = [fn |-> "determineWinner", class |-> c, move1 |-> a, move2 |-> b]
          /\ returned = [done |-> FALSE]
          /\ GameIs(NewGame(RPS, <<P1, P2>>)) /\ ArbiterIdle(RPS)
       \/ /\ \/ \E m \in 0..MaxRetriesArg, d \in Delays :
                  /\ call = [fn |-> "retryBlockchainOperation",
                              maxRetries |-> m, delayMs |-> d]
                  /\ returned = RetryEntered(d)
             \/ /\ call = [fn |-> "safeSendTransaction",
                             maxRetries |-> 4, delayMs |-> 2000]
                /\ returned = RetryEntered(2000)
          /\ GameIs(NewGame(COIN, <<P1, P2>>)) /\ ArbiterIdle(COIN)
       \/ /\ \E n \in 0..MaxClients : \E cs \in [1..n -> ClientStates] :
               call = [fn |-> "broadcast", connections |-> cs]
          /\ returned = [done |-> FALSE]
          /\ GameIs(NewGame(RPS, <<P1, P2>>)) /\ ArbiterIdle(RPS)
       \/ /\ call = [fn |-> "checkWinner"]
          /\ returned = [done |-> FALSE]
          /\ \E b \in Boards : GameIs([NewGame(TTT, <<P1, P2>>) EXCEPT !.board = b])
          /\ ArbiterIdle(TTT)
       \/ /\ \E t \in GameTypes \union {UnknownType} :
               call = [fn |-> "startGame", gameType |-> t]
          /\ returned = [done |-> FALSE]
          /\ GameIs(NoGame)
          /\ \E t \in GameTypes, ps \in {<<P1, P2>>, <<P2, P1>>} :
               /\ GAME_TYPE = t /\ arbiterPlayers = ps
               /\ games = {} /\ nextGameId = 1 /\ startTimers = 0
               /\ endTimers = [g \in GameIds |-> 0] /\ endingGames = {}
               /\ paying = <<>> /\ payoutCalls = <<>>
               /\ finishedWinner = [g \in GameIds |-> "none"]
               /\ gameStarted = <<>> /\ startTasks = {}
               /\ connecting = [a \in A2ARegistrants |-> 0]

CallDetermineWinner ==
    /\ call.fn = "determineWinner" /\ ~returned.done
    /\ returned' =
          [done |-> TRUE,
           value |-> IF call.class = "legacy"
                     THEN Legacy_determineWinner(call.move1, call.move2)
                     ELSE RockPaperScissorsGame_determineWinner(call.move1, call.move2)]
    /\ UNCHANGED <<gameVars, arbiterVars, call, messageVars, limiterVars>>

CallCheckWinner ==
    /\ call.fn = "checkWinner" /\ ~returned.done
    /\ returned' = [done |-> TRUE, value |-> TicTacToeGame_checkWinner(board)]
    /\ UNCHANGED <<gameVars, arbiterVars, call, messageVars, limiterVars>>

CallStartGame ==
    /\ call.fn = "startGame" /\ ~returned.done
    /\ startGame(call.gameType)
    /\ returned' = [done |-> TRUE, value |-> NULL]
    /\ UNCHANGED <<call, startTimers, messageVars, limiterVars>>

\* delayMs *= 2
NextDelay_Constant(delayMs) == delayMs

NextDelay(delayMs) == delayMs * 2

\* one pass of the for loop of retryBlockchainOperation, the operation ending
\* with outcome, up to the next await or to the return or throw; wrapping is
\* safeSendTransaction's catch, which rethrows everything as BlockchainError
retryBlockchainOperation_attempt(loop, maxRetries, outcome, wrapping) ==
    LET tried == [loop EXCEPT !.outcomes = Append(@, outcome)]
    IN  IF loop.attempt > maxRetries
        THEN [loop EXCEPT !.done = TRUE, !.threw = "BlockchainError"]
        ELSE IF outcome = "ok"
        THEN [tried EXCEPT !.done = TRUE]
        ELSE IF ~isTransientError(outcome) /\ loop.attempt < maxRetries
        THEN [tried EXCEPT !.done = TRUE,
                           !.threw = IF wrapping THEN "BlockchainError" ELSE "Error"]
        ELSE IF loop.attempt < maxRetries
        THEN [tried EXCEPT !.waits = Append(@, loop.delayMs),
                           !.delayMs = NextDelay(loop.delayMs),
                           !.attempt = @ + 1]
        ELSE [tried EXCEPT !.done = TRUE, !.attempt = @ + 1,
                           !.threw = "BlockchainError"]

\* the ways the operation safeSendTransaction retries can end, sent telling
\* whether connection.sendTransaction returned a signature: confirmed;
\* getLatestBlockhash or sendTransaction rejecting with a transient or with
\* another error; the 30 s confirmation race lost ('Confirmation timeout');
\* the confirmation reporting an error ('Transaction failed')
safeSendTransaction_operation ==
    {[outcome |-> "ok", sent |-> TRUE],
     [outcome |-> "transient", sent |-> FALSE],
     [outcome |-> "permanent", sent |-> FALSE],
     [outcome |-> "transient", sent |-> TRUE],
     [outcome |-> "permanent", sent |-> TRUE]}

\* the ways an operation can end that retryBlockchainOperation is given
OperationsOf(fn) ==
    IF fn = "safeSendTransaction" THEN safeSendTransaction_operation
    ELSE {[outcome |-> o, sent |-> FALSE] : o \in OperationOutcomes}

CallRetryAttempt ==
    /\ call.fn \in {"retryBlockchainOperation", "safeSendTransaction"}
    /\ ~returned.done
    /\ \E op \in OperationsOf(call.fn) :
          LET invoked == returned.attempt <= call.maxRetries
              counted == [returned EXCEPT !.submitted =
                             IF invoked /\ op.sent THEN @ + 1 ELSE @]
          IN  returned' = retryBlockchainOperation_attempt(
                              counted, call.maxRetries, op.outcome,
                              call.fn = "safeSendTransaction")
    /\ UNCHANGED <<gameVars, arbiterVars, call, messageVars, limiterVars>>

\* broadcast(event, data) to the subscribers in clients without the try/catch
broadcast_Unguarded(connections) ==
    LET clients == sseClientsOf(connections)
        threwAt == {i \in clients : connections[i] = "broken"}
    IN  [delivered |-> {i \in clients : /\ connections[i] = "open"
                                         /\ \A j \in threwAt : i < j},
         threw |-> threwAt # {}]

\* broadcast(event, data): the subscribers written to, and whether it threw
broadcast(connections) ==
    LET clients == sseClientsOf(connections)
    IN  [delivered |-> {i \in clients : connections[i] = "open"},
         threw |-> FALSE]

CallBroadcast ==
    /\ call.fn = "broadcast" /\ ~returned.done
    /\ returned' = [done |-> TRUE, value |-> broadcast(call.connections)]
    /\ UNCHANGED <<gameVars, arbiterVars, call, messageVars, limiterVars>>

CallNext ==
    \/ CallDetermineWinner
    \/ CallCheckWinner
    \/ CallStartGame
    \/ CallRetryAttempt
    \/ CallBroadcast

CallSpec == CallInit /\ [][CallNext]_vars

\* every started call is run on: the event loop resumes a pending await
CallFairSpec == CallSpec /\ WF_vars(CallNext)


\* C15: for all a, b in {rock, paper, scissors} determineWinner(a, b) is the
\* negation of determineWinner(b, a), it is 0 exactly when a = b, and it is 1
\* exactly for (rock, scissors), (scissors, paper) and (paper, rock).
C15_DetermineWinnerAntisymmetric ==
    (call.fn = "determineWinner" /\ returned.done) =>
        LET a == call.move1
            b == call.move2
            r == returned.value
            reversed == IF call.class = "legacy" THEN Legacy_determineWinner(b, a)
                        ELSE RockPaperScissorsGame_determineWinner(b, a)
        IN  /\ r \in {0 - 1, 0, 1}
            /\ r = 0 - reversed
            /\ (r = 0) <=> (a = b)
            /\ (r = 1) <=> (<<a, b>> \in {<<"rock", "scissors">>,
                                          <<"scissors", "paper">>,
                                          <<"paper", "rock">>})

\* determineWinner("paper", "rock") has returned 1
C15_Witness ==
    /\ call.fn = "determineWinner" /\ returned.done
    /\ call.class = "RockPaperScissorsGame"
    /\ call.move1 = "paper" /\ call.move2 = "rock"
    /\ returned.value = 1

\* the 8 lines of the grid as sets of zero-indexed cells: rows, columns and
\* the two diagonals
GridLines ==
    {{3 * r, 3 * r + 1, 3 * r + 2} : r \in 0..2}
        \union {{c, c + 3, c + 6} : c \in 0..2}
        \union {{0, 4, 8}, {2, 4, 6}}

\* the three cells of line l hold symbol s on board b
Holds(b, l, s) == \A i \in l : b[i + 1] = s

\* C16: on every board over X, O and empty, checkWinner reports a winner
\* exactly when one of the 8 lines holds three equal non-empty symbols; the
\* line it reports is one of the 8 and holds three of the symbol it reports.
C16_CheckWinnerLines ==
    (call.fn = "checkWinner" /\ returned.done) =>
        LET r == returned.value
            reported == {r.line[i] : i \in 1..Len(r.line)}
        IN  /\ (r.winner # NULL) <=>
                  (\E l \in GridLines, s \in {"X", "O"} : Holds(board, l, s))
            /\ (r.winner # NULL) =>
                  /\ r.winner \in {"X", "O"}
                  /\ reported \in GridLines
                  /\ Holds(board, reported, r.winner)
            /\ (r.winner = NULL) => r.line = <<>>

\* O holds the diagonal from the top right corner and nothing else is a
\* line: checkWinner has reported O on cells 2, 4, 6
C16_Witness ==
    /\ call.fn = "checkWinner" /\ returned.done
    /\ board = <<"X", "X", "O", NULL, "O", "X", "O", NULL, NULL>>
    /\ returned.value = [winner |-> "O", line |-> <<2, 4, 6>>]

\* C20: createGame with a type that is not registered returns null, and
\* startGame then creates no game session, broadcasts no game_started event
\* and dispatches no move request; with a registered type the game created is
\* of that type.
C20_UnknownTypeStartsNothing ==
    [][(call.fn = "startGame" /\ ~returned.done /\ returned'.done) =>
         IF call.gameType \in GameTypes
         THEN /\ gameType' = call.gameType
              /\ games' = games \union {nextGameId}
              /\ Len(gameStarted') = Len(gameStarted) + 1
         ELSE /\ GameRegistry_createGame(call.gameType, arbiterPlayers) = {NoGame}
              /\ UNCHANGED <<gameVars, games, nextGameId, gameStarted, startTasks,
                             arbiterPlayers>>]_vars

\* startGame has returned from a call with the unknown type, two players
\* being registered
C20_Witness ==
    /\ call.fn = "startGame" /\ call.gameType = UnknownType /\ returned.done
    /\ Len(arbiterPlayers) = 2
    /\ games = {} /\ gameStarted = <<>> /\ startTasks = {}

----------------------------------------------------------------------------
(* The A2A arbiter (server/arbiter.ts) and the rock-paper-scissors game    *)
(* with start and makeMove that it runs                                    *)

\* new RockPaperScissorsGame(gameId, players) followed by game.start()
Legacy_start(ps) ==
    [gameType |-> RPS, players |-> ps, score |-> [i \in 1..Len(ps) |-> 0],
     round |-> 1, maxRounds |-> 9, currentMoves |-> <<>>, history |-> <<>>,
     status |-> "playing", winnerId |-> NULL, board |-> EmptyBoard,
     roundsWon |-> [i \in 1..2 |-> 0], currentTurnIndex |-> 0,
     chess |-> Chess_new, moveHistory |-> <<>>]

\* currentRound.moves.get(playerId) over the pending moves cm
Legacy_moveOf(cm, playerId) ==
    cm[CHOOSE k \in 1..Len(cm) : cm[k].playerId = playerId].move

\* evaluateRound over the pending moves cm: the round's winner, decided
\* between the first two players of the array (of the CompletedRound, the
\* round number and the winner are kept)
Legacy_evaluateRound(cm) ==
    LET move1 == Legacy_moveOf(cm, players[1])
        move2 == Legacy_moveOf(cm, players[2])
        result == Legacy_determineWinner(move1, move2)
    IN  [roundNumber |-> round,
         winnerId |-> IF result = 0 THEN NULL
                      ELSE IF result = 1 THEN players[1] ELSE players[2]]

\* the scores after the round won by w
Legacy_scoreAfter(w) ==
    [i \in 1..Len(players) |-> IF players[i] = w THEN score[i] + 1 ELSE score[i]]

\* checkGameOver on scores sc: the winner it records, NULL when it starts a
\* new round instead
Legacy_checkGameOver(sc) ==
    IF sc[1] >= CeilHalf(maxRounds) THEN players[1]
    ELSE IF sc[2] >= CeilHalf(maxRounds) THEN players[2]
    ELSE NULL

Legacy_refused(reason) ==
    [success |-> FALSE, result |-> reason, roundComplete |-> FALSE, gameOver |-> FALSE]

\* what makeMove(playerId, move) returns in the current state
Legacy_makeMove_returns(playerId, move) ==
    IF status # "playing" THEN Legacy_refused("Game not in progress")
    ELSE IF move \notin {"rock", "paper", "scissors"}
    THEN Legacy_refused("Invalid move. Use: rock, paper, or scissors")
    ELSE IF HasMoved(playerId)
    THEN Legacy_refused("You already made your move this round")
    ELSE IF findPlayerById(playerId) = 0 THEN Legacy_refused("Player not found")
    ELSE LET cm == Append(currentMoves, [playerId |-> playerId, move |-> move])
         IN  IF Len(cm) = Len(players)
             THEN [success |-> TRUE, result |-> "Move recorded",
                   roundComplete |-> TRUE,
                   gameOver |-> Legacy_checkGameOver(
                       Legacy_scoreAfter(Legacy_evaluateRound(cm).winnerId)) # NULL]
             ELSE [success |-> TRUE, result |-> "Move recorded. Waiting for opponent...",
                   roundComplete |-> FALSE, gameOver |-> FALSE]

\* makeMove(playerId, move)
Legacy_makeMove(playerId, move) ==
    LET r == Legacy_makeMove_returns(playerId, move)
        cm == Append(currentMoves, [playerId |-> playerId, move |-> move])
    IN  /\ UNCHANGED <<gameType, players, maxRounds, board, roundsWon,
                       currentTurnIndex, chess, moveHistory>>
        /\ IF ~r.success
           THEN UNCHANGED <<score, round, currentMoves, history, status, winnerId>>
           ELSE IF ~r.roundComplete
           THEN /\ currentMoves' = cm
                /\ UNCHANGED <<score, round, history, status, winnerId>>
           ELSE LET completed == Legacy_evaluateRound(cm)
                    sc == Legacy_scoreAfter(completed.winnerId)
                    w == Legacy_checkGameOver(sc)
                IN  /\ score' = sc
                    /\ history' = Append(history, completed)
                    /\ IF w # NULL
                       THEN /\ winnerId' = w
                            /\ status' = "finished"
                            /\ currentMoves' = cm
                            /\ UNCHANGED round
                       ELSE /\ round' = round + 1
                            /\ currentMoves' = <<>>
                            /\ UNCHANGED <<status, winnerId>>

\* POST /register from players.set on: the entry is written, and the start
\* of the game is scheduled when the map then holds two entries
A2A_registered(agentId) ==
    /\ arbiterPlayers' = IF IsRegistered(agentId) THEN arbiterPlayers
                         ELSE Append(arbiterPlayers, agentId)
    /\ startTimers' = IF Len(arbiterPlayers') = 2 THEN startTimers + 1 ELSE startTimers

\* POST /register with the required fields, up to the await of
\* A2AClient.fromCardUrl when the body carries an agentUrl
A2A_register(agentId, agentUrl) ==
    /\ ~IsRegistered(agentId)
    /\ IF agentUrl
       THEN /\ connecting[agentId] < MaxInFlight
            /\ connecting' = [connecting EXCEPT ![agentId] = @ + 1]
            /\ UNCHANGED <<arbiterPlayers, startTimers>>
       ELSE /\ A2A_registered(agentId)
            /\ UNCHANGED connecting
    /\ UNCHANGED <<gameVars, GAME_TYPE, games, nextGameId, endTimers, endingGames,
                   paying, payoutCalls, finishedWinner, gameStarted, startTasks>>

\* A2AClient.fromCardUrl returns or throws, and the handler goes on
A2A_connected(agentId) ==
    /\ connecting[agentId] > 0
    /\ connecting' = [connecting EXCEPT ![agentId] = @ - 1]
    /\ A2A_registered(agentId)
    /\ UNCHANGED <<gameVars, GAME_TYPE, games, nextGameId, endTimers, endingGames,
                   paying, payoutCalls, finishedWinner, gameStarted, startTasks>>

\* startGame(): the game is built from every entry of the players map
A2A_startGame ==
    /\ GameBecomes(Legacy_start(arbiterPlayers))
    /\ games' = games \union {nextGameId}
    /\ nextGameId' = nextGameId + 1
    /\ gameStarted' = Append(gameStarted, [gameId |-> nextGameId, gameType |-> RPS])
    /\ startTasks' = startTasks \union
          {[gameId |-> nextGameId, to |-> arbiterPlayers[i]] :
              i \in 1..Len(arbiterPlayers)}
    /\ UNCHANGED <<GAME_TYPE, connecting, arbiterPlayers, endTimers, endingGames,
                   paying, payoutCalls, finishedWinner>>

\* POST /move for a game the games Map holds
A2A_move(agentId, move, gameId) ==
    /\ gameId \in games
    /\ Len(history) < MaxLegacyResolved
    /\ Legacy_makeMove(agentId, move)
    /\ LET r == Legacy_makeMove_returns(agentId, move)
       IN  endTimers' = IF r.success /\ r.roundComplete /\ r.gameOver
                        THEN [endTimers EXCEPT ![gameId] = @ + 1]
                        ELSE endTimers
    /\ finishedWinner' =
          IF status # "finished" /\ status' = "finished"
          THEN [finishedWinner EXCEPT ![gameId] = winnerId']
          ELSE finishedWinner
    /\ UNCHANGED <<GAME_TYPE, connecting, arbiterPlayers, games, nextGameId,
                   startTimers, endingGames, paying, payoutCalls, gameStarted,
                   startTasks>>

\* the endGame(gameId) callback, up to the await of sendAndConfirmTransaction
A2A_endGame(gameId) ==
    /\ endTimers[gameId] > 0
    /\ endTimers' = [endTimers EXCEPT ![gameId] = @ - 1]
    /\ IF gameId \notin games \/ ~IsRegistered(winnerId)
       THEN UNCHANGED <<paying, payoutCalls>>
       ELSE /\ payoutCalls' = Append(payoutCalls,
                                     [gameId |-> gameId, to |-> WalletOf(winnerId)])
            /\ paying' = Append(paying, [gameId |-> gameId, winnerId |-> winnerId])
    /\ UNCHANGED <<gameVars, GAME_TYPE, connecting, arbiterPlayers, games, nextGameId,
                   startTimers, endingGames, finishedWinner, gameStarted, startTasks>>

\* sendAndConfirmTransaction of the k-th waiting endGame call returns (ok) or
\* throws; either way players.clear() and games.delete(gameId) follow
A2A_payoutSettles(k, ok) ==
    LET gameId == paying[k].gameId
    IN  /\ paying' = SubSeq(paying, 1, k - 1) \o SubSeq(paying, k + 1, Len(paying))
        /\ arbiterPlayers' = <<>>
        /\ games' = games \ {gameId}
        /\ IF gameId \in games THEN GameBecomes(NoGame) ELSE UNCHANGED gameVars
        /\ finishedWinner' = [finishedWinner EXCEPT ![gameId] = "none"]
        /\ UNCHANGED <<GAME_TYPE, connecting, nextGameId, startTimers, endTimers,
                       endingGames, payoutCalls, gameStarted, startTasks>>

A2AInit == GameIs(NoGame) /\ ArbiterIdle(RPS) /\ NoCall /\ NoMessages /\ NoLimiter

A2ARegisterRequest ==
    /\ \E agentId \in A2ARegistrants, agentUrl \in BOOLEAN :
          A2A_register(agentId, agentUrl)
    /\ UNCHANGED <<callVars, messageVars, limiterVars>>

A2AConnectReturns ==
    /\ \E agentId \in A2ARegistrants : A2A_connected(agentId)
    /\ UNCHANGED <<callVars, messageVars, limiterVars>>

\* the setTimeout(() => startGame(), 2000) callback
A2AStartGameTimer ==
    /\ startTimers > 0
    /\ nextGameId <= MaxMatches
    /\ startTimers' = startTimers - 1
    /\ A2A_startGame
    /\ UNCHANGED <<callVars, messageVars, limiterVars>>

A2AMoveRequest ==
    /\ \E agentId \in A2ARegistrants, move \in ArbiterMovesOf(RPS), gameId \in GameIds :
          A2A_move(agentId, move, gameId)
    /\ UNCHANGED <<callVars, messageVars, limiterVars>>

A2AEndGameTimer ==
    /\ \E gameId \in GameIds : A2A_endGame(gameId)
    /\ UNCHANGED <<callVars, messageVars, limiterVars>>

A2APayoutReturns ==
    /\ \E k \in 1..Len(paying), ok \in BOOLEAN : A2A_payoutSettles(k, ok)
    /\ UNCHANGED <<callVars, messageVars, limiterVars>>

A2ANext ==
    \/ A2ARegisterRequest
    \/ A2AConnectReturns
    \/ A2AStartGameTimer
    \/ A2AMoveRequest
    \/ A2AEndGameTimer
    \/ A2APayoutReturns

A2ASpec == A2AInit /\ [][A2ANext]_vars

\* C19: the players map never holds more than two entries, and every game
\* startGame has created has exactly two distinct players, the same ones
\* until the match is evicted.
C19_TwoPlayersPerMatch ==
    /\ [](/\ Len(arbiterPlayers) <= 2
          /\ games # {} => (Len(players) = 2 /\ players[1] # players[2]))
    /\ [][(games # {} /\ games' # {}) => players' = players]_vars

----------------------------------------------------------------------------
(* The length of a rock-paper-scissors match *)

\* C25: a rock-paper-scissors match never becomes finished after fewer than
\* 9 resolved rounds while both players have fewer than 5 round wins.
C25_ActiveUntilFiveWinsOrNineRounds ==
    (gameType = RPS /\ status = "finished") =>
        \/ \E i \in 1..Len(players) : score[i] >= 5
        \/ Len(history) >= 9

----------------------------------------------------------------------------
(* The two arrival orders of a simultaneous round *)

\* the winner evaluateRound records for the pending moves cm
RecordedWinner(cm, actualFlip) ==
    evaluateRound(round, score, cm, actualFlip).result.winnerId

\* with one move pending, whichever accepted move completes the round, the
\* winner recorded is the one recorded had the two moves arrived the other
\* way round
SameWinnerEitherOrder ==
    (gameType \in {RPS, COIN} /\ Len(currentMoves) = 1) =>
        \A playerId \in Callers, move \in MovesOf(gameType),
           actualFlip \in FlipsOf(gameType) :
            validateMove(playerId, move).valid =>
                LET second == [playerId |-> playerId, move |-> move]
                IN  RecordedWinner(<<currentMoves[1], second>>, actualFlip)
                        = RecordedWinner(<<second, currentMoves[1]>>, actualFlip)

\* C26: when both players' moves of a simultaneous round arrive, in either
\* order, one round resolution occurs: one record is appended to history, at
\* most one score changes, the pending set is emptied, and the winner
\* recorded is the same for both arrival orders.
C26_OneResolutionEitherOrder ==
    /\ []SameWinnerEitherOrder
    /\ [][\/ UNCHANGED history
          \/ gameType \notin {RPS, COIN}
          \/ /\ Len(currentMoves) = 1
             /\ Len(history') = Len(history) + 1
             /\ currentMoves' = <<>>
             /\ Cardinality({i \in 1..Len(players) : score'[i] # score[i]}) <= 1]_vars

----------------------------------------------------------------------------
(* Tic-tac-toe sub-rounds and the turn cursor *)

\* the board once playerId has put its symbol on the cell it names
BoardAfter(playerId, move) ==
    [board EXCEPT ![parseInt(move)] = playerSymbols(playerId)]

\* the call is accepted and the mark it places completes a line
CompletesLine(playerId, move) ==
    /\ TicTacToeGame_validateMove(playerId, move).valid
    /\ TicTacToeGame_checkWinner(BoardAfter(playerId, move)).winner # NULL

\* the call is accepted and the mark it places fills the board, no line made
FillsBoard(playerId, move) ==
    /\ TicTacToeGame_validateMove(playerId, move).valid
    /\ TicTacToeGame_checkWinner(BoardAfter(playerId, move)).winner = NULL
    /\ TicTacToeGame_isBoardFull(BoardAfter(playerId, move))

\* a call that completes a line answers roundCompleted = true
LineEndsSubRound ==
    gameType = TTT =>
        \A playerId \in Callers, move \in MovesOf(TTT) :
            CompletesLine(playerId, move) =>
                /\ TicTacToeGame_submitMove_returns(playerId, move).success
                /\ TicTacToeGame_submitMove_returns(playerId, move).roundCompleted

\* after 1, 2, 4, 5 played alternately from the first player, 7 gives X the
\* line [0, 3, 6]
LeftColumnScenario ==
    (/\ gameType = TTT /\ currentTurnIndex = 0
     /\ board = <<"X", "O", NULL, "X", "O", NULL, NULL, NULL, NULL>>) =>
        /\ CompletesLine(players[1], "7")
        /\ TicTacToeGame_checkWinner(BoardAfter(players[1], "7"))
              = [winner |-> "X", line |-> <<0, 3, 6>>]

\* C27: in tic-tac-toe the accepted move that completes a line ends the
\* sub-round on that call and credits the player who made it, and nobody
\* else, with one sub-round win; 1, 2, 4, 5, 7 played alternately give the
\* first player the sub-round through line [0, 3, 6].
C27_LineCreditsMover ==
    /\ [](LineEndsSubRound /\ LeftColumnScenario)
    /\ [][\/ UNCHANGED <<board, score, roundsWon, round>>
          \/ gameType # TTT
          \/ \A playerId \in Callers, move \in MovesOf(TTT) :
                (CompletesLine(playerId, move)
                 /\ TicTacToeGame_submitMove(playerId, move)) =>
                    LET i == findPlayerById(playerId)
                    IN  /\ score' = [score EXCEPT ![i] = @ + 1]
                        /\ roundsWon' = [roundsWon EXCEPT ![i] = @ + 1]
                        /\ round' = round + 1]_vars

\* the first player has won the first sub-round and the second is to begin
C27_Witness ==
    /\ gameType = TTT /\ round = 1
    /\ score = <<1, 0>> /\ roundsWon = <<1, 0>>
    /\ board = EmptyBoard

\* C28: after every sub-round resolution (a completed line, or a full board
\* with no line) the board is entirely empty and the turn cursor points to
\* players[0]; a full board with no line adds 1 to round and changes no score.
C28_SubRoundResets ==
    [][\/ UNCHANGED <<board, score, roundsWon, round, currentTurnIndex>>
       \/ gameType # TTT
       \/ \A playerId \in Callers, move \in MovesOf(TTT) :
             /\ (/\ TicTacToeGame_submitMove_returns(playerId, move).roundCompleted
                 /\ TicTacToeGame_submitMove(playerId, move)) =>
                    /\ \A c \in 1..9 : board'[c] = NULL
                    /\ currentTurnIndex' = 0
             /\ (FillsBoard(playerId, move)
                 /\ TicTacToeGame_submitMove(playerId, move)) =>
                    /\ round' = round + 1
                    /\ UNCHANGED <<score, roundsWon>>]_vars

\* the first sub-round ended on a full board without a line
C28_Witness ==
    /\ gameType = TTT /\ round = 1
    /\ score = <<0, 0>> /\ roundsWon = <<0, 0>>
    /\ board = EmptyBoard /\ currentTurnIndex = 0

\* the number of cells of the board holding symbol s
Marks(s) == Cardinality({c \in 1..9 : board[c] = s})

\* within a sub-round X and O have moved alternately, X first, and the
\* cursor is on the player to move next; in chess the movers recorded so
\* far alternate, players[0] first
MoversAlternate ==
    /\ gameType = TTT =>
          /\ Marks("X") - Marks("O") = currentTurnIndex
          /\ currentTurnIndex \in {0, 1}
    /\ gameType = CHESS =>
          \A k \in 1..Len(moveHistory) : moveHistory[k] = players[((k - 1) % 2) + 1]

\* C29: in tic-tac-toe and chess each accepted move that ends neither the
\* round nor the match passes the turn cursor to the other player, so the
\* accepted moves of one sub-round (or one chess game) alternate between the
\* two players, starting with players[0].
C29_TurnsAlternate ==
    /\ []MoversAlternate
    /\ [][\/ UNCHANGED <<board, chess, moveHistory, currentTurnIndex, round>>
          \/ gameType \notin {TTT, CHESS}
          \/ \A playerId \in Callers, move \in MovesOf(gameType),
                v \in AnswersOf(gameType) :
                (/\ GameSubmitMove_returns(playerId, move, v).success
                 /\ ~GameSubmitMove_returns(playerId, move, v).roundCompleted
                 /\ GameSubmitMove(playerId, move, "heads", v)) =>
                    /\ playerId = players[currentTurnIndex + 1]
                    /\ currentTurnIndex' = 1 - currentTurnIndex]_vars

----------------------------------------------------------------------------
(* The arbiter together with what it sends and the agents that answer: the *)
(* move requests (at match start and from the timers POST /move sets), the *)
(* agents' handling of them, the statistics and the events.  Followed for  *)
(* the simultaneous games and, in a specification of its own, tic-tac-toe.  *)

\* String(idx + 1) for the cells of the board
String(n) == <<"1", "2", "3", "4", "5", "6", "7", "8", "9">>[n]

\* getAvailableMoves: the fixed list of a simultaneous game, the empty cells
\* of the tic-tac-toe board
getAvailableMoves(t) ==
    CASE t = RPS -> {"rock", "paper", "scissors"}
      [] t = COIN -> {"heads", "tails"}
      [] t = TTT -> {String(i) : i \in {c \in 1..9 : board[c] = NULL}}

\* sendTaskToPlayer sending nothing
SendTasks_Nothing(gameId, recipients) == UNCHANGED inbox

\* sendTaskToPlayer for each of recipients: a request leaves for every
\* recipient the players Map still holds (of the requests an agent has not
\* handled yet, MaxInbox are followed)
SendTasks(gameId, recipients) ==
    LET sent == {a \in recipients : IsRegistered(a)}
    IN  inbox' = [a \in Registrants |->
                     IF a \in sent /\ inbox[a][gameId] < MaxInbox
                     THEN [inbox[a] EXCEPT ![gameId] = @ + 1]
                     ELSE inbox[a]]

\* startGame(gameType) with the move requests it sends
startGame_sending(type) ==
    /\ startGame(type)
    /\ IF games' = games
       THEN UNCHANGED inbox
       ELSE SendTasks(nextGameId,
                      IF ConfigOf(gameType').turnBased
                      THEN {players'[currentTurnIndex' + 1]}
                      ELSE {players'[i] : i \in 1..Len(players')})
    /\ UNCHANGED <<taskTimers, lastHandled, gameOverEvents, stats, roundResults>>

\* statsTracker.recordRound for every player of the round lastRound
recordRound(lastRound) ==
    [a \in Registrants |->
        IF \A i \in 1..Len(players) : players[i] # a THEN stats[a]
        ELSE IF lastRound.winnerId = NULL
        THEN [stats[a] EXCEPT !.roundsTied = @ + 1]
        ELSE IF lastRound.winnerId = a
        THEN [stats[a] EXCEPT !.roundsWon = @ + 1]
        ELSE [stats[a] EXCEPT !.roundsLost = @ + 1]]

\* POST /move with what follows the response: the statistics, the
\* round_result event and the timer set for the next move requests
PostMove_scheduling(agentId, move, gameId) ==
    /\ taskTimers[gameId].pending + taskTimers[gameId].resolved < MaxTaskTimers
    /\ PostMove(agentId, move, gameId)
    /\ LET moveResult == GameSubmitMove_returns(agentId, move, "normal")
           roundComplete == moveResult.success /\ moveResult.roundCompleted
       IN  /\ taskTimers' =
                 IF ~moveResult.success THEN taskTimers
                 ELSE IF ~moveResult.roundCompleted
                 THEN [taskTimers EXCEPT ![gameId].pending = @ + 1]
                 ELSE IF status' = "finished" THEN taskTimers
                 ELSE [taskTimers EXCEPT ![gameId].resolved = @ + 1]
           /\ IF roundComplete /\ history' # <<>>
              THEN /\ stats' = recordRound(history'[Len(history')])
                   /\ roundResults' = roundResults + 1
              ELSE UNCHANGED <<stats, roundResults>>

\* the callback of a move-request timer: the 500 ms one set after a move
\* that left the round pending, the 1500 ms one set after a resolved round
TaskTimerFires(gameId, kind) ==
    /\ taskTimers[gameId][kind] > 0
    /\ taskTimers' = [taskTimers EXCEPT ![gameId][kind] = @ - 1]
    /\ LET sessionPlayers == IF gameId \in games
                             THEN {players[i] : i \in 1..Len(players)}
                             ELSE Registrants
           recipients == IF /\ kind = "pending" /\ gameId \in games
                            /\ ConfigOf(gameType).turnBased
                         THEN {players[currentTurnIndex + 1]}
                         ELSE sessionPlayers
       IN  SendTasks(gameId, recipients)
    /\ UNCHANGED <<gameVars, arbiterVars, lastHandled, gameOverEvents, stats, roundResults>>

\* the fetch of sendTaskToPlayer throws: the failure is logged
TaskUndelivered(agentId, gameId) ==
    /\ inbox[agentId][gameId] > 0
    /\ inbox' = [inbox EXCEPT ![agentId][gameId] = @ - 1]
    /\ lastHandled' = [outcome |-> "undelivered", legalMovePosted |-> FALSE]
    /\ UNCHANGED <<gameVars, arbiterVars, taskTimers, gameOverEvents, stats, roundResults>>

\* what the language model does with the query
LLMOutcomes == {"answers", "unrecognised", "throws"}

\* queryLLM: the move found in the answer, or a random element of validMoves
\* when the answer holds none or the query throws
BaseStrategy_queryLLM(llm, validMoves) == validMoves

\* the moves of validMoves the agents are followed on: all of them in the
\* simultaneous games, the first and the last empty cell in tic-tac-toe
Considered(validMoves) ==
    IF GAME_TYPE # TTT THEN validMoves
    ELSE {m \in validMoves :
            \/ \A n \in validMoves : parseInt(m) <= parseInt(n)
            \/ \A n \in validMoves : parseInt(m) >= parseInt(n)}

\* the agent's POST /task: handleGameTask decides a move and posts it
handleGameTask(agentId, gameId, llm) ==
    /\ inbox[agentId][gameId] > 0
    /\ inbox' = [inbox EXCEPT ![agentId][gameId] = @ - 1]
    /\ \E move \in Considered(BaseStrategy_queryLLM(llm, getAvailableMoves(GAME_TYPE))) :
          /\ IF gameId \in games
             THEN PostMove_scheduling(agentId, move, gameId)
             ELSE UNCHANGED <<gameVars, arbiterVars, taskTimers, stats, roundResults>>
          /\ lastHandled' = [outcome |-> llm,
                              legalMovePosted |-> move \in getAvailableMoves(GAME_TYPE)]
    /\ UNCHANGED gameOverEvents

\* the return of safeSendTransaction in endGame: game_over is broadcast
\* after it, inside the try block
PayoutSettles_notifying(k, ok) ==
    /\ PayoutSettles(k, ok)
    /\ gameOverEvents' = IF ok THEN gameOverEvents \union {paying[k].gameId}
                         ELSE gameOverEvents
    /\ UNCHANGED <<taskTimers, inbox, lastHandled, stats, roundResults>>

MessagingInit ==
    \E t \in {RPS, COIN} : GameIs(NoGame) /\ ArbiterIdle(t) /\ NoCall /\ NoMessages /\ NoLimiter

MsgRegister ==
    /\ \E agentId \in Registrants : Register(agentId)
    /\ UNCHANGED <<callVars, messageVars, limiterVars>>

MsgStartGameTimer ==
    /\ startTimers > 0
    /\ nextGameId <= MaxMatches
    /\ startTimers' = startTimers - 1
    /\ startGame_sending(GAME_TYPE)
    /\ UNCHANGED <<callVars, limiterVars>>

MsgTaskTimer ==
    /\ \E gameId \in GameIds, kind \in {"pending", "resolved"} :
          TaskTimerFires(gameId, kind)
    /\ UNCHANGED <<callVars, limiterVars>>

MsgTaskUndelivered ==
    /\ \E agentId \in Registrants, gameId \in GameIds : TaskUndelivered(agentId, gameId)
    /\ UNCHANGED <<callVars, limiterVars>>

MsgAgentMoves ==
    /\ Len(history) < MaxAnsweredRounds
    /\ \E agentId \in Registrants, gameId \in GameIds, llm \in LLMOutcomes :
          handleGameTask(agentId, gameId, llm)
    /\ UNCHANGED <<callVars, limiterVars>>

MsgEndGameTimer ==
    /\ \E gameId \in GameIds : endGame(gameId)
    /\ UNCHANGED <<callVars, messageVars, limiterVars>>

MsgPayoutReturns ==
    /\ \E k \in 1..Len(paying), ok \in BOOLEAN : PayoutSettles_notifying(k, ok)
    /\ UNCHANGED <<callVars, limiterVars>>

MessagingNext ==
    \/ MsgRegister
    \/ MsgStartGameTimer
    \/ MsgTaskTimer
    \/ MsgTaskUndelivered
    \/ MsgAgentMoves
    \/ MsgEndGameTimer
    \/ MsgPayoutReturns

MessagingSpec == MessagingInit /\ [][MessagingNext]_vars

\* the arbiter started for tic-tac-toe
TurnBasedInit ==
    GameIs(NoGame) /\ ArbiterIdle(TTT) /\ NoCall /\ NoMessages /\ NoLimiter

\* an agent whose language model names a move handles a request
MsgAgentPlays ==
    /\ \E agentId \in Registrants, gameId \in GameIds :
          handleGameTask(agentId, gameId, "answers")
    /\ UNCHANGED <<callVars, limiterVars>>

TurnBasedNext ==
    \/ MsgRegister
    \/ MsgStartGameTimer
    \/ MsgTaskTimer
    \/ MsgTaskUndelivered
    \/ MsgAgentPlays
    \/ MsgEndGameTimer
    \/ MsgPayoutReturns

TurnBasedSpec == TurnBasedInit /\ [][TurnBasedNext]_vars

\* a move request leaves for some agent
RequestSent ==
    \E a \in Registrants, g \in GameIds : inbox'[a][g] > inbox[a][g]

\* C30: in a simultaneous game the arbiter sends move requests only at match
\* start and after a round resolution, never while the pending round holds
\* exactly one player's move.
C30_NoRequestMidRound ==
    [][(RequestSent /\ gameType' \in {RPS, COIN}) => Len(currentMoves') # 1]_vars

\* C24: when a decision request fails (the query throws, the answer holds no
\* recognisable move, or the request cannot be delivered to the agent) a
\* move from the legal-move list is submitted for that player all the same.
C24_FallbackMoveSubmitted ==
    lastHandled.outcome \in {"unrecognised", "throws", "undelivered"} =>
        lastHandled.legalMovePosted

\* C21: when the prize payout of a finished match with a winner fails, the
\* game_over event carrying the winner and the final state is still emitted.
C21_GameOverDespiteFailedPayout ==
    \A k \in 1..Len(payoutCalls) :
        LET gameId == payoutCalls[k].gameId
        IN  (\A j \in 1..Len(paying) : paying[j].gameId # gameId) =>
                gameId \in gameOverEvents

-----------------------------------------------------------------------------
(* retryBlockchainOperation and broadcast called on their own               *)

RECURSIVE TwoToThe(_)
TwoToThe(n) == IF n = 0 THEN 1 ELSE 2 * TwoToThe(n - 1)

RetryCalled == call.fn \in {"retryBlockchainOperation", "safeSendTransaction"}

AllTransient ==
    \A k \in 1..Len(returned.outcomes) : returned.outcomes[k] = "transient"

\* the operation is invoked at most maxRetries times; the k-th wait is
\* delayMs * 2^(k-1); a call whose attempts all failed with a transient
\* error made maxRetries attempts and threw a BlockchainError
RetryWithinLimits ==
    RetryCalled =>
        /\ Len(returned.outcomes) <= call.maxRetries
        /\ \A k \in 1..Len(returned.waits) :
              returned.waits[k] = call.delayMs * TwoToThe(k - 1)
        /\ (returned.done /\ AllTransient) =>
              /\ Len(returned.outcomes) = call.maxRetries
              /\ Len(returned.waits) = IF call.maxRetries = 0 THEN 0
                                       ELSE call.maxRetries - 1
              /\ returned.threw = "BlockchainError"
        /\ (call.fn = "safeSendTransaction" /\ returned.done /\ AllTransient) =>
              /\ Len(returned.outcomes) = 4
              /\ returned.waits = <<2000, 4000, 8000>>

\* C22: retryBlockchainOperation invokes the operation at most maxRetries
\* times and always returns or throws; when every attempt fails with a
\* transient error it makes exactly maxRetries attempts, waits
\* delayMs * 2^(k-1) before the k-th retry and then throws a BlockchainError
\* (prize payout: 4 attempts, waits of 2000, 4000 and 8000 ms).
C22_RetryBoundedBackoff ==
    /\ []RetryWithinLimits
    /\ (RetryCalled ~> returned.done)

C22_Witness ==
    /\ call.fn = "safeSendTransaction"
    /\ returned.done
    /\ returned.outcomes = <<"transient", "transient", "transient", "transient">>
    /\ returned.waits = <<2000, 4000, 8000>>
    /\ returned.threw = "BlockchainError"

\* C23: broadcast writes the event to every connected subscriber whose write
\* succeeds, also when the write to another subscriber throws; it never
\* throws, and the match state is what it was before the call.
C23_BroadcastIsolatesSubscribers ==
    (call.fn = "broadcast" /\ returned.done) =>
        /\ returned.value.delivered =
              {i \in 1..Len(call.connections) : call.connections[i] = "open"}
        /\ ~returned.value.threw
        /\ GameIs(NewGame(RPS, <<P1, P2>>))
        /\ ArbiterIdle(RPS)

C23_Witness ==
    /\ call.fn = "broadcast"
    /\ returned.done
    /\ call.connections = <<"broken", "open", "closed">>
    /\ returned.value.delivered = {2}

\* C32: once an attempt of retryBlockchainOperation fails with an error that
\* is not transient, the operation is not invoked again and the call ends by
\* throwing to its caller.
C32_PermanentErrorNotRetried ==
    RetryCalled =>
        \A k \in 1..Len(returned.outcomes) :
            returned.outcomes[k] = "permanent" =>
                /\ k = Len(returned.outcomes)
                /\ returned.done
                /\ returned.threw \in {"Error", "BlockchainError"}

C32_Witness ==
    /\ call.fn = "retryBlockchainOperation"
    /\ call.maxRetries = 3
    /\ returned.outcomes = <<"transient", "permanent">>
    /\ returned.done
    /\ returned.threw = "Error"

\* C33: an active game has winnerId = null, and a rock-paper-scissors, coin
\* flip or tic-tac-toe game that is finished with winnerId = null has equal
\* scores for its two players.
C33_NullWinnerMeansDraw ==
    /\ status = "active" => winnerId = NULL
    /\ (gameType \in {RPS, COIN, TTT} /\ status = "finished" /\ winnerId = NULL)
           => score[1] = score[2]

C33_Witness ==
    /\ gameType = TTT
    /\ status = "finished"
    /\ winnerId = NULL
    /\ score = <<1, 1>>

CellsOf(symbol) == Cardinality({c \in 1..9 : board[c] = symbol})

\* C39: in every tic-tac-toe state the number of X cells minus the number of
\* O cells is 0 or 1, the turn cursor is on players[0] exactly when the two
\* numbers are equal, and players[0] plays X and players[1] plays O.
C39_MarksBalanced ==
    gameType = TTT =>
        /\ CellsOf("X") - CellsOf("O") \in {0, 1}
        /\ (currentTurnIndex = 0) <=> (CellsOf("X") = CellsOf("O"))
        /\ playerSymbols(players[1]) = "X"
        /\ playerSymbols(players[2]) = "O"

C39_Witness ==
    /\ gameType = TTT
    /\ CellsOf("X") = 3
    /\ CellsOf("O") = 2
    /\ currentTurnIndex = 1
    /\ round = 1

-----------------------------------------------------------------------------
(* Letter case of rock-paper-scissors moves *)

\* the cyclic dominance: rock beats scissors, scissors paper, paper rock
Beats(a, b) ==
    <<a, b>> \in {<<"rock", "scissors">>, <<"scissors", "paper">>, <<"paper", "rock">>}

\* the winner of first against second judged on the lowercase moves
WinnerOnLowercase(first, second) ==
    LET a == toLowerCase(first.move)
        b == toLowerCase(second.move)
    IN  IF a = b THEN NULL
        ELSE IF Beats(a, b) THEN first.playerId
        ELSE second.playerId

\* C36: in rock-paper-scissors every accepted move is judged by the cyclic
\* dominance on its lowercase form: whichever accepted move completes the
\* pending round, the winner evaluateRound records is the winner on the
\* lowercase moves ('Rock' beats 'scissors', 'Rock' ties with 'rock').
C36_JudgedOnLowercase ==
    (gameType = RPS /\ Len(currentMoves) = 1) =>
        \A playerId \in Callers, move \in MovesOf(RPS) :
            validateMove(playerId, move).valid =>
                LET second == [playerId |-> playerId, move |-> move]
                IN  RecordedWinner(<<currentMoves[1], second>>, "heads")
                        = WinnerOnLowercase(currentMoves[1], second)

-----------------------------------------------------------------------------
(* One session at a time *)

\* POST /register from agentId would be answered with success
RegistrationAccepted(agentId) ==
    ~IsRegistered(agentId) /\ Len(arbiterPlayers) < 2

C35_OneTransferSubmitted ==
    call.fn = "safeSendTransaction" => returned.submitted <= 1

-----------------------------------------------------------------------------
(* The rate limiter: one RateLimiter object, requests from two addresses,   *)
(* the clock advancing between them, the cleanup interval firing at any time *)

\* largest maxRequests the limiter is constructed with
MaxLimit == 2
\* largest windowMs, in ticks of the clock
MaxWindow == 2
\* the clock is followed up to this tick
MaxClock == 4
\* requests followed
MaxServed == 5

\* the middleware with the limit tested after the count is raised
RateLimiter_middleware_OneTooMany(key) ==
    LET record == store[key]
    IN  IF record = NoRecord \/ now > record.resetAt
        THEN [store |-> [store EXCEPT ![key] =
                            [count |-> 1, resetAt |-> now + limiter.windowMs]],
              status |-> 200]
        ELSE IF record.count > limiter.maxRequests
        THEN [store |-> store, status |-> 429]
        ELSE [store |-> [store EXCEPT ![key].count = @ + 1], status |-> 200]

\* the middleware for a request of key: the store it leaves and the status it
\* answers with (200 standing for next())
RateLimiter_middleware(key) ==
    LET record == store[key]
    IN  IF record = NoRecord \/ now > record.resetAt
        THEN [store |-> [store EXCEPT ![key] =
                            [count |-> 1, resetAt |-> now + limiter.windowMs]],
              status |-> 200]
        ELSE IF record.count >= limiter.maxRequests
        THEN [store |-> store, status |-> 429]
        ELSE [store |-> [store EXCEPT ![key].count = @ + 1], status |-> 200]

\* cleanup(): the records whose window is over are deleted
RateLimiter_cleanup ==
    [key \in Keys |-> IF store[key] # NoRecord /\ now > store[key].resetAt
                      THEN NoRecord ELSE store[key]]

LimiterInit ==
    /\ \E m \in 1..MaxLimit, w \in 1..MaxWindow :
          limiter = [maxRequests |-> m, windowMs |-> w]
    /\ store = [key \in Keys |-> NoRecord]
    /\ now = 0
    /\ served = <<>>
    /\ GameIs(NoGame) /\ ArbiterIdle(RPS) /\ NoCall /\ NoMessages

LimiterRequest ==
    /\ Len(served) < MaxServed
    /\ \E key \in Keys :
          LET answer == RateLimiter_middleware(key)
          IN  /\ store' = answer.store
              /\ served' = Append(served, [key |-> key, at |-> now,
                                           status |-> answer.status,
                                           count |-> answer.store[key].count,
                                           resetAt |-> answer.store[key].resetAt])
    /\ UNCHANGED <<gameVars, arbiterVars, callVars, messageVars, limiter, now>>

LimiterCleanup ==
    /\ store' = RateLimiter_cleanup
    /\ UNCHANGED <<gameVars, arbiterVars, callVars, messageVars, limiter, now, served>>

LimiterTick ==
    /\ now < MaxClock
    /\ now' = now + 1
    /\ UNCHANGED <<gameVars, arbiterVars, callVars, messageVars, limiter, store, served>>

LimiterNext == LimiterRequest \/ LimiterCleanup \/ LimiterTick

LimiterSpec == LimiterInit /\ [][LimiterNext]_vars

\* the requests of key among those served, in order
ServedOf(key) == SelectSeq(served, LAMBDA r : r.key = key)

\* the requests reqs[i..] of one key follow the window rule, the window in
\* force having started at start (-1: none yet) with admitted requests
\* admitted in it and the stored count being stored
RECURSIVE FollowsWindows(_, _, _, _, _)
FollowsWindows(reqs, i, start, admitted, stored) ==
    IF i > Len(reqs) THEN TRUE
    ELSE LET r == reqs[i]
         IN  IF start = 0 - 1 \/ r.at > start + limiter.windowMs
             THEN /\ r.status = 200
                  /\ r.count = 1
                  /\ r.resetAt = r.at + limiter.windowMs
                  /\ FollowsWindows(reqs, i + 1, r.at, 1, 1)
             ELSE IF admitted >= limiter.maxRequests
             THEN /\ r.status = 429
                  /\ r.count = stored
                  /\ FollowsWindows(reqs, i + 1, start, admitted, stored)
             ELSE /\ r.status = 200 => admitted + 1 <= limiter.maxRequests
                  /\ FollowsWindows(reqs, i + 1, start,
                                    IF r.status = 200 THEN admitted + 1 ELSE admitted,
                                    r.count)

\* C40: for each key the limiter admits at most maxRequests requests in a
\* window that starts at the key's first request and lasts windowMs (its last
\* instant included); every further request in the window is answered 429 and
\* leaves the stored count as it was; the first request after the window is
\* admitted and starts a new window with count 1.
C40_WindowedLimit ==
    limiter.maxRequests > 0 =>
        \A key \in Keys : FollowsWindows(ServedOf(key), 1, 0 - 1, 0, 0)

C40_Witness ==
    /\ limiter = [maxRequests |-> 2, windowMs |-> 1]
    /\ Len(served) = 4
    /\ \A i \in 1..4 : served[i].key = "10.0.0.1"
    /\ <<served[1].at, served[2].at, served[3].at, served[4].at>> = <<0, 1, 1, 2>>
    /\ <<served[1].status, served[2].status, served[3].status, served[4].status>>
           = <<200, 200, 429, 200>>
    /\ served[4].count = 1

-----------------------------------------------------------------------------
(* Move requests and statistics of turn-based games *)

\* C37: in a turn-based game every move request the arbiter sends, at match
\* start, after a move that leaves the round open and after a sub-round
\* resolution, goes to the player whose turn it is and to nobody else.
C37_RequestsToTurnHolder ==
    [][\A a \in Registrants, g \in GameIds :
          (/\ inbox'[a][g] > inbox[a][g]
           /\ g \in games'
           /\ ConfigOf(gameType').turnBased)
              => a = players'[currentTurnIndex' + 1]]_vars

\* an accepted move completes a round: a resolution of a simultaneous round,
\* the end of a tic-tac-toe sub-round
RoundCompletes ==
    /\ gameType \in {RPS, COIN, TTT}
    /\ gameType' = gameType
    /\ IF gameType = TTT THEN round' = round + 1
       ELSE Len(history') = Len(history) + 1

\* the rounds recorded for player a
RoundsRecorded(st, a) == st[a].roundsWon + st[a].roundsLost + st[a].roundsTied

\* C31: for every accepted move that completes a round, in every game type,
\* the arbiter records one round outcome per player (win and lose, or tie
\* for both) and emits one round_result event.
C31_RoundRecordedOnce ==
    [][RoundCompletes =>
          /\ roundResults' = roundResults + 1
          /\ \A i \in 1..2 :
                RoundsRecorded(stats', players[i]) = RoundsRecorded(stats, players[i]) + 1
          /\ \/ \A i \in 1..2 : stats'[players[i]].roundsTied = stats[players[i]].roundsTied + 1
             \/ \E i \in 1..2 :
                   /\ stats'[players[i]].roundsWon = stats[players[i]].roundsWon + 1
                   /\ stats'[players[3 - i]].roundsLost = stats[players[3 - i]].roundsLost + 1]_vars

-----------------------------------------------------------------------------
(* Matches whose move requests are all answered: every request reaches its  *)
(* agent, which posts a move of the legal-move list for it; the match is    *)
(* followed up to its finish                                                *)

AnsweredInit ==
    \E t \in {RPS, COIN, TTT} :
        GameIs(NoGame) /\ ArbiterIdle(t) /\ NoCall /\ NoMessages /\ NoLimiter

MsgAgentAnswers(agentId) ==
    /\ status # "finished"
    /\ \E gameId \in GameIds : handleGameTask(agentId, gameId, "answers")
    /\ UNCHANGED <<callVars, limiterVars>>

AnsweredNext ==
    \/ MsgRegister
    \/ MsgStartGameTimer
    \/ MsgTaskTimer
    \/ \E agentId \in Registrants : MsgAgentAnswers(agentId)

\* a pending timer fires and a request that was sent is answered: the
\* arbiter and the agents do not stop while one of them has a step to take
AnsweredSpec == AnsweredInit /\ [][AnsweredNext]_vars /\ WF_vars(AnsweredNext)

\* the rounds resolved so far: sub-rounds in tic-tac-toe
ResolvedRounds == IF gameType = TTT THEN round ELSE Len(history)

RoundLimit ==
    CASE gameType = RPS -> 9
      [] gameType = COIN -> 5
      [] gameType = TTT -> 3

====
